---- MODULE Spec2Model ----
(***************************************************************************)
(* Model of the lightweight service registry (RuntimeProtocolGenerator)    *)
(* and of the invocation dispatcher (LightweightServer) of tstpc-dev.      *)
(***************************************************************************)
EXTENDS Integers, Sequences, FiniteSets, TLC

(***************************************************************************)
(* Bounds                                                                  *)
(***************************************************************************)
MaxNames == 1
MaxData == 1
MaxHandlers == 2
MaxFlowsPerCall == 1
MaxFlowPoints == 4
MaxRequests == 2
MaxItems == 2

(***************************************************************************)
(* Values                                                                  *)
(***************************************************************************)
NamePool == <<"math/add", "user/login", "chat/msg", "test/error">>

\* names that are keys of Object.prototype: a lookup obj[name] on a plain
\* object literal finds an inherited value for them
ObjectPrototypeKeys == {"constructor"}

Names == {NamePool[i] : i \in 1..MaxNames} \cup ObjectPrototypeKeys

Kinds == {"api", "msg"}

Data == 0..MaxData

\* JavaScript values a lookup or a registration can yield
Undefined == [t |-> "undefined", v |-> 0]
Inherited == [t |-> "inherited", v |-> 0]
Num(i) == [t |-> "number", v |-> i]

EmptyMap == [x \in {} |-> 0]

Put(f, k, v) == [x \in (DOMAIN f) \cup {k} |-> IF x = k THEN v ELSE f[x]]

\* obj[key] on a plain object literal whose own values are numbers
JsGet(obj, key) ==
  IF key \in DOMAIN obj THEN Num(obj[key])
  ELSE IF key \in ObjectPrototypeKeys THEN Inherited
  ELSE Undefined

Includes(s, x) == \E i \in 1..Len(s) : s[i] = x

\* validators: predicates over the payload, or a function that throws
ValidatorIds == {"isZero", "throws"}
NoValidator == "none"

ValidatorResult(v, d) ==
  IF v = "isZero" THEN (IF d = 0 THEN "true" ELSE "false")
  ELSE "throw"

\* the optional second argument of registerApi
AbsentApiValidator == [given |-> FALSE, req |-> NoValidator, res |-> NoValidator]
ApiValidatorArgs ==
  {AbsentApiValidator,
   [given |-> TRUE, req |-> "isZero", res |-> NoValidator],
   [given |-> TRUE, req |-> NoValidator, res |-> "isZero"]}
MsgValidatorArgs == {NoValidator, "isZero"}

\* the customValidators option: a map name -> {req?, res?}
CustomValidatorChoices ==
  {EmptyMap,
   [n \in {NamePool[1]} |-> [req |-> "isZero", res |-> "isZero"]],
   [n \in {NamePool[1]} |-> [req |-> "throws", res |-> NoValidator]],
   [n \in {NamePool[1]} |-> [req |-> NoValidator, res |-> "throws"]]}

\* the constructor options of a server: with validation disabled the
\* custom validators are never consulted
OptionChoices ==
  {o \in [enableValidation : BOOLEAN, customValidators : CustomValidatorChoices] :
      o.enableValidation \/ o.customValidators = EmptyMap}

\* every combination of the two options
AllOptionChoices == [enableValidation : BOOLEAN, customValidators : CustomValidatorChoices]

\* thrown values: a plain Error, a LightweightError, a plain object that
\* carries code and type, and null/undefined
NoThrow == [kind |-> "none", message |-> "", code |-> "", type |-> ""]
PlainError(m) == [kind |-> "Error", message |-> m, code |-> "", type |-> ""]
NullThrown == [kind |-> "null", message |-> "", code |-> "", type |-> ""]
HookThrown == {PlainError("boom"), NullThrown}
Thrown ==
  {PlainError("boom"), PlainError(""), NullThrown,
   [kind |-> "LightweightError", message |-> "denied", code |-> "E_DENIED", type |-> "ClientError"],
   [kind |-> "object", message |-> "odd", code |-> "E_ODD", type |-> "OddError"]}

\* what a hook (LightweightMiddleware) does when invoked: whether it calls
\* its continuation, and how it ends
NoBeh == [calls |-> FALSE, how |-> "none", val |-> 0, err |-> NoThrow]
HookBehaviours ==
  {[calls |-> c, how |-> h, val |-> 0, err |-> NoThrow] :
      c \in BOOLEAN, h \in {"resolve", "hang"}}
  \cup {[calls |-> c, how |-> h, val |-> 0, err |-> e] :
      c \in BOOLEAN, h \in {"throwSync", "reject"}, e \in HookThrown}

\* what an API handler does when invoked
HandlerBehaviours ==
  {[calls |-> FALSE, how |-> "resolve", val |-> d, err |-> NoThrow] : d \in Data}
  \cup {[calls |-> FALSE, how |-> "hang", val |-> 0, err |-> NoThrow]}
  \cup {[calls |-> FALSE, how |-> h, val |-> 0, err |-> e] :
      h \in {"throwSync", "reject"}, e \in Thrown}

FlowPoints ==
  {"onConnect", "onDisconnect", "preReceiveData", "preSendData", "preApiCall",
   "preApiReturn", "postApiCall", "preMsgReceive", "preMsgSend"}
ApiFlowPoints == {"preApiCall", "preApiReturn", "postApiCall"}
HookIds == {"f1"}
\* hooks told apart by identity
AllHookIds == {"f1", "f2"}
Unbound == "unbound"
HandlerIds == {"h1"}
\* handlers told apart by identity
AllHandlerIds == {"h1", "h2"}
NoHandler == "none"

\* LightweightApiReturn: `fields` are the keys the returned object has
NoErr == [message |-> "", code |-> "", type |-> ""]
NoEnvelope == [isSucc |-> FALSE, fields |-> {}, res |-> <<>>, err |-> NoErr]
Success(r) == [isSucc |-> TRUE, fields |-> {"isSucc", "res"}, res |-> r, err |-> NoErr]
Failure(m, c, t) ==
  [isSucc |-> FALSE, fields |-> {"isSucc", "err"}, res |-> <<>>,
   err |-> [message |-> m, code |-> c, type |-> t]]

VARIABLES
  options,      \* RuntimeProtocolGenerator.options
  serviceMap,   \* RuntimeProtocolGenerator.serviceMap
  protocol,     \* RuntimeProtocolGenerator.protocol
  lastRet,      \* the value returned by the last registry operation
  registered,   \* history: the (kind, name) pairs registerApi/registerMsg were called with since the last reset
  apiHandlers,  \* LightweightServer.apiHandlers
  flows,        \* LightweightServer.flows
  msgHandlers,  \* LightweightServer.msgHandlers
  connections,  \* LightweightServer.connections
  call,         \* one handleApiCall invocation: its position and locals
  msgCall,      \* one handleMsgCall invocation: its position and locals
  http,         \* one handleJsonRequest/handleBinaryRequest invocation and the response it writes
  request,      \* one LightweightHttpServer.handleRequest invocation
  send,         \* one sendMsg or broadcastMsg invocation with the sendMsg calls it makes
  call2,        \* a second handleApiCall invocation, in flight together with `call`
  codec,        \* one serialize call and the deserialize call on its result
  standalone,   \* the StandaloneHttpServer: handlers, flows and one handleApiCall
  disconnected, \* onDisconnect hook invocations and closeConnection calls, per connection id
  lifecycle     \* LightweightHttpServer._status, httpServer and the outcome of start() and stop()

regVars == <<options, serviceMap, protocol, lastRet, registered>>
ioVars == <<connections, request, send, call2, codec, standalone, disconnected, lifecycle>>
srvVars == <<apiHandlers, msgHandlers, flows, ioVars>>
callVars == <<call, msgCall, http>>
vars == <<options, serviceMap, protocol, lastRet, registered, apiHandlers, msgHandlers,
          flows, connections, call, msgCall, http, request, send, call2, codec, standalone, disconnected, lifecycle>>

(***************************************************************************)
(* RuntimeProtocolGenerator                                                *)
(***************************************************************************)
NewServiceMap ==
  [apiName2Id |-> EmptyMap, id2ApiName |-> EmptyMap,
   msgName2Id |-> EmptyMap, id2MsgName |-> EmptyMap, nextId |-> 0]

NewProtocol ==
  [apiNames |-> <<>>, msgNames |-> <<>>,
   validators |-> [api |-> EmptyMap, msg |-> EmptyMap]]

\* registerApi: the value returned
RegisterApiRet(sm, name) ==
  IF JsGet(sm.apiName2Id, name) # Undefined
  THEN JsGet(sm.apiName2Id, name)
  ELSE Num(sm.nextId)

\* registerApi: the service map afterwards
RegisterApiMap(sm, name) ==
  IF JsGet(sm.apiName2Id, name) # Undefined
  THEN sm
  ELSE [sm EXCEPT !.apiName2Id = Put(@, name, sm.nextId),
                  !.id2ApiName = Put(@, sm.nextId, name),
                  !.nextId = @ + 1]

\* registerApi: the protocol afterwards
RegisterApiProtocol(sm, pr, opts, name, validator) ==
  IF JsGet(sm.apiName2Id, name) # Undefined
  THEN pr
  ELSE LET p1 == IF Includes(pr.apiNames, name) THEN pr
                 ELSE [pr EXCEPT !.apiNames = Append(@, name)]
       IN IF validator.given /\ opts.enableValidation
          THEN [p1 EXCEPT !.validators.api =
                  Put(@, name, [req |-> validator.req, res |-> validator.res])]
          ELSE p1

RegisterMsgRet(sm, name) ==
  IF JsGet(sm.msgName2Id, name) # Undefined
  THEN JsGet(sm.msgName2Id, name)
  ELSE Num(sm.nextId)

\* faulty variant: the counter is read but not advanced
RegisterMsgMap_NoAdvance(sm, name) ==
  IF JsGet(sm.msgName2Id, name) # Undefined
  THEN sm
  ELSE [sm EXCEPT !.msgName2Id = Put(@, name, sm.nextId),
                  !.id2MsgName = Put(@, sm.nextId, name)]

RegisterMsgMap(sm, name) ==
  IF JsGet(sm.msgName2Id, name) # Undefined
  THEN sm
  ELSE [sm EXCEPT !.msgName2Id = Put(@, name, sm.nextId),
                  !.id2MsgName = Put(@, sm.nextId, name),
                  !.nextId = @ + 1]

RegisterMsgProtocol(sm, pr, opts, name, validator) ==
  IF JsGet(sm.msgName2Id, name) # Undefined
  THEN pr
  ELSE LET p1 == IF Includes(pr.msgNames, name) THEN pr
                 ELSE [pr EXCEPT !.msgNames = Append(@, name)]
       IN IF validator # NoValidator /\ opts.enableValidation
          THEN [p1 EXCEPT !.validators.msg = Put(@, name, validator)]
          ELSE p1

GetServiceId(sm, serviceName, type) ==
  IF type = "api" THEN JsGet(sm.apiName2Id, serviceName)
  ELSE JsGet(sm.msgName2Id, serviceName)

\* getServiceName: the keys are numbers, none is inherited
GetServiceName(sm, serviceId, type) ==
  IF type = "api"
  THEN (IF serviceId \in DOMAIN sm.id2ApiName THEN sm.id2ApiName[serviceId] ELSE "undefined")
  ELSE (IF serviceId \in DOMAIN sm.id2MsgName THEN sm.id2MsgName[serviceId] ELSE "undefined")

registerApi(name, validator) ==
  /\ serviceMap' = RegisterApiMap(serviceMap, name)
  /\ protocol' = RegisterApiProtocol(serviceMap, protocol, options, name, validator)
  /\ lastRet' = RegisterApiRet(serviceMap, name)
  /\ registered' = registered \cup {<<"api", name>>}
  /\ UNCHANGED options

registerMsg(name, validator) ==
  /\ serviceMap' = RegisterMsgMap(serviceMap, name)
  /\ protocol' = RegisterMsgProtocol(serviceMap, protocol, options, name, validator)
  /\ lastRet' = RegisterMsgRet(serviceMap, name)
  /\ registered' = registered \cup {<<"msg", name>>}
  /\ UNCHANGED options

getServiceId(name, type) ==
  /\ lastRet' = GetServiceId(serviceMap, name, type)
  /\ UNCHANGED <<options, serviceMap, protocol, registered>>

reset ==
  /\ serviceMap' = NewServiceMap
  /\ protocol' = NewProtocol
  /\ lastRet' = Undefined
  /\ registered' = {}
  /\ UNCHANGED options

(***************************************************************************)
(* RuntimeProtocolGenerator: validation                                    *)
(***************************************************************************)
\* protocol.validators?.api[apiName]?.req : an inherited value has no req
ExplicitApiValidator(pr, name, dir) ==
  IF name \in DOMAIN pr.validators.api THEN pr.validators.api[name][dir] ELSE NoValidator

\* options.customValidators[apiName]?.req
CustomApiValidator(opts, name, dir) ==
  IF name \in DOMAIN opts.customValidators THEN opts.customValidators[name][dir]
  ELSE NoValidator

\* faulty variant: the custom validator is consulted before the explicit one
ValidateApi_CustomFirst(opts, pr, name, data, dir) ==
  IF ~opts.enableValidation THEN "true"
  ELSE IF CustomApiValidator(opts, name, dir) # NoValidator
       THEN ValidatorResult(CustomApiValidator(opts, name, dir), data)
  ELSE IF ExplicitApiValidator(pr, name, dir) # NoValidator
       THEN ValidatorResult(ExplicitApiValidator(pr, name, dir), data)
  ELSE "true"

ValidateApi(opts, pr, name, data, dir) ==
  IF ~opts.enableValidation THEN "true"
  ELSE IF ExplicitApiValidator(pr, name, dir) # NoValidator
       THEN ValidatorResult(ExplicitApiValidator(pr, name, dir), data)
  ELSE IF CustomApiValidator(opts, name, dir) # NoValidator
       THEN ValidatorResult(CustomApiValidator(opts, name, dir), data)
  ELSE "true"

\* faulty variant: the request is not validated
ValidateRequest_Unchecked(opts, pr, name, data) == "true"

ValidateRequest(opts, pr, name, data) == ValidateApi(opts, pr, name, data, "req")

\* faulty variant: the response is not validated
ValidateResponse_Unchecked(opts, pr, name, data) == "true"

ValidateResponse(opts, pr, name, data) == ValidateApi(opts, pr, name, data, "res")

\* the outcome of a validation call: "true", "false", or "throw" when the
\* validator function throws
Verdict(op, name, data, r) ==
  [t |-> "verdict", v |-> 0, op |-> op, name |-> name, data |-> data, r |-> r]

validateRequest(name, data) ==
  /\ lastRet' = Verdict("validateRequest", name, data,
                        ValidateRequest(options, protocol, name, data))
  /\ UNCHANGED <<options, serviceMap, protocol, registered>>

validateResponse(name, data) ==
  /\ lastRet' = Verdict("validateResponse", name, data,
                        ValidateResponse(options, protocol, name, data))
  /\ UNCHANGED <<options, serviceMap, protocol, registered>>

(***************************************************************************)
(* LightweightServer: configuration                                        *)
(***************************************************************************)
NewFlows == [p \in FlowPoints |-> Unbound]

\* faulty variant: the argument replaces the table
MergeFlows_Replace(old, partial) ==
  [p \in FlowPoints |-> IF p \in DOMAIN partial THEN partial[p] ELSE Unbound]

\* { ...this.flows, ...flows }
MergeFlows(old, partial) ==
  [p \in FlowPoints |-> IF p \in DOMAIN partial THEN partial[p] ELSE old[p]]

\* the id registerApi returns is discarded
implementApi(name, handler) ==
  /\ serviceMap' = RegisterApiMap(serviceMap, name)
  /\ protocol' = RegisterApiProtocol(serviceMap, protocol, options, name, AbsentApiValidator)
  /\ registered' = registered \cup {<<"api", name>>}
  /\ apiHandlers' = Put(apiHandlers, name, handler)
  /\ UNCHANGED <<options, lastRet, msgHandlers, flows, ioVars, callVars>>

setFlows(partial) ==
  /\ flows' = MergeFlows(flows, partial)
  /\ UNCHANGED <<regVars, apiHandlers, msgHandlers, ioVars, callVars>>

(***************************************************************************)
(* LightweightServer.handleApiCall                                         *)
(***************************************************************************)
IdleCall ==
  [pc |-> "idle", name |-> NamePool[1], req |-> 0, trace |-> <<>>,
   reqValid |-> "none", resValid |-> "none",
   preOut |-> "none", handlerOut |-> "none", preRetOut |-> "none",
   pending |-> NoBeh, result |-> <<>>, caught |-> NoThrow, ret |-> NoEnvelope,
   post |-> "none", postBeh |-> NoBeh, handler |-> NoHandler]

\* what the caller of a hook or handler observes of its behaviour
Outcome(b) ==
  IF b.how \in {"throwSync", "reject"} THEN "threw"
  ELSE IF b.how = "hang" THEN "hung"
  ELSE IF b.calls THEN "continued"
  ELSE "skipped"

NewCall(name, req) == [IdleCall EXCEPT !.pc = "running", !.name = name, !.req = req]

Return(k, env) == [k EXCEPT !.pc = "returned", !.ret = env, !.pending = NoBeh]

\* faulty variant: the message of a wrapped exception is not forwarded
Catch_DropsMessage(k, e) ==
  IF e.kind = "null"
  THEN [k EXCEPT !.pc = "rejected", !.caught = e, !.pending = NoBeh]
  ELSE IF e.kind = "LightweightError"
  THEN Return([k EXCEPT !.caught = e], Failure(e.message, e.code, e.type))
  ELSE Return([k EXCEPT !.caught = e],
              Failure("Internal server error", "INTERNAL_ERROR", "ServerError"))

\* the catch block: reading error.message of null or undefined raises a
\* TypeError inside the catch block, which rejects the call
Catch(k, e) ==
  IF e.kind = "null"
  THEN [k EXCEPT !.pc = "rejected", !.caught = e, !.pending = NoBeh]
  ELSE IF e.kind = "LightweightError"
  THEN Return([k EXCEPT !.caught = e], Failure(e.message, e.code, e.type))
  ELSE Return([k EXCEPT !.caught = e],
              Failure(IF e.message = "" THEN "Internal server error" ELSE e.message,
                      "INTERNAL_ERROR", "ServerError"))

\* the postApiCall hook is started and not awaited
PostFlow(k, fl, qb) ==
  IF fl["postApiCall"] # Unbound
  THEN LET k1 == [k EXCEPT !.trace = Append(@, "postApiCall"), !.postBeh = qb] IN
       IF qb.how = "throwSync"
       THEN Catch(k1, qb.err)
       ELSE Return([k1 EXCEPT !.post = "pending"], Success(k.result))
  ELSE Return(k, Success(k.result))

\* faulty variant: shouldContinue is not consulted after preApiReturn
AfterPreApiReturn_IgnoresContinue(k, fl, qb) ==
  IF k.pending.how = "reject"
  THEN Catch(k, k.pending.err)
  ELSE PostFlow([k EXCEPT !.pending = NoBeh], fl, qb)

\* the awaited preApiReturn hook has settled
AfterPreApiReturn(k, fl, qb) ==
  IF k.pending.how = "reject"
  THEN Catch(k, k.pending.err)
  ELSE IF ~k.pending.calls
  THEN Return(k,
              Failure("API return canceled by preApiReturn flow", "FLOW_CANCELED", "ServerError"))
  ELSE PostFlow([k EXCEPT !.pending = NoBeh], fl, qb)

\* the awaited handler has settled
AfterHandler(k, opts, pr, fl, ve, rb, qb) ==
  IF k.pending.how = "reject"
  THEN Catch(k, k.pending.err)
  ELSE LET rv == ValidateResponse(opts, pr, k.name, k.pending.val)
           k1 == [k EXCEPT !.result = <<k.pending.val>>,
                           !.resValid = rv, !.pending = NoBeh]
       IN IF rv = "throw" THEN Catch(k1, ve)
          ELSE IF rv = "false"
          THEN Return(k1, Failure("Invalid response data for API: " \o k.name,
                                  "INVALID_RESPONSE", "ServerError"))
          ELSE IF fl["preApiReturn"] # Unbound
          THEN LET k2 == [k1 EXCEPT !.trace = Append(@, "preApiReturn"),
                                    !.preRetOut = Outcome(rb)] IN
               IF rb.how = "throwSync"
               THEN Catch(k2, rb.err)
               ELSE [k2 EXCEPT !.pc = "awaitPreApiReturn", !.pending = rb]
          ELSE PostFlow(k1, fl, qb)

\* faulty variant: the handler is called without the lookup being checked
InvokeHandler_Unchecked(k, handlers, hb) ==
  LET k1 == [k EXCEPT !.trace = Append(@, "handler"),
                      !.handler = IF k.name \in DOMAIN handlers THEN handlers[k.name]
                                  ELSE NoHandler,
                      !.handlerOut = IF hb.how = "resolve" THEN "returned"
                                     ELSE Outcome(hb)] IN
  IF hb.how = "throwSync"
  THEN Catch(k1, hb.err)
  ELSE [k1 EXCEPT !.pc = "awaitHandler", !.pending = hb]

\* handler lookup and invocation
InvokeHandler(k, handlers, hb) ==
  IF k.name \notin DOMAIN handlers
  THEN Return(k, Failure("No handler found for API: " \o k.name,
                         "HANDLER_NOT_FOUND", "ServerError"))
  ELSE LET k1 == [k EXCEPT !.trace = Append(@, "handler"),
                           !.handler = handlers[k.name],
                           !.handlerOut = IF hb.how = "resolve" THEN "returned"
                                          ELSE Outcome(hb)] IN
       IF hb.how = "throwSync"
       THEN Catch(k1, hb.err)
       ELSE [k1 EXCEPT !.pc = "awaitHandler", !.pending = hb]

\* faulty variant: shouldContinue is not consulted
AfterPreApiCall_IgnoresContinue(k, handlers, hb) ==
  IF k.pending.how = "reject"
  THEN Catch(k, k.pending.err)
  ELSE InvokeHandler([k EXCEPT !.pending = NoBeh], handlers, hb)

\* the awaited preApiCall hook has settled
AfterPreApiCall(k, handlers, hb) ==
  IF k.pending.how = "reject"
  THEN Catch(k, k.pending.err)
  ELSE IF ~k.pending.calls
  THEN Return(k, Failure("API call canceled by preApiCall flow", "FLOW_CANCELED", "ServerError"))
  ELSE InvokeHandler([k EXCEPT !.pending = NoBeh], handlers, hb)

\* from the entry of handleApiCall to its first await
HandleApiCallStart(k, opts, pr, fl, handlers, ve, pb, hb) ==
  LET qv == ValidateRequest(opts, pr, k.name, k.req)
      k1 == [k EXCEPT !.reqValid = qv]
  IN IF qv = "throw" THEN Catch(k1, ve)
     ELSE IF qv = "false"
     THEN Return(k1, Failure("Invalid request data for API: " \o k.name,
                             "INVALID_REQUEST", "ClientError"))
     ELSE IF fl["preApiCall"] # Unbound
     THEN LET k2 == [k1 EXCEPT !.trace = Append(@, "preApiCall"), !.preOut = Outcome(pb)] IN
          IF pb.how = "throwSync"
          THEN Catch(k2, pb.err)
          ELSE [k2 EXCEPT !.pc = "awaitPreApiCall", !.pending = pb]
     ELSE InvokeHandler(k1, handlers, hb)

Settled(b) == b.how \in {"resolve", "reject"}

\* the behaviours that matter for a stage that is reached only if `cond`
Pick(cond, S) == IF cond THEN S ELSE {NoBeh}

ApiCallStart ==
  /\ call.pc \in {"idle", "returned", "rejected"}
  /\ \E n \in Names, d \in Data :
       LET qv == ValidateRequest(options, protocol, n, d)
           hooked == qv = "true" /\ flows["preApiCall"] # Unbound
           direct == qv = "true" /\ flows["preApiCall"] = Unbound /\ n \in DOMAIN apiHandlers
       IN \E ve \in (IF qv = "throw" THEN HookThrown ELSE {NoThrow}),
             pb \in Pick(hooked, HookBehaviours),
             hb \in Pick(direct, HandlerBehaviours) :
            call' = HandleApiCallStart(NewCall(n, d), options, protocol, flows,
                                       apiHandlers, ve, pb, hb)
  /\ UNCHANGED <<regVars, srvVars, msgCall, http>>

ApiPreCallResume ==
  /\ call.pc = "awaitPreApiCall"
  /\ Settled(call.pending)
  /\ \E hb \in Pick(call.pending.how = "resolve" /\ call.pending.calls
                      /\ call.name \in DOMAIN apiHandlers, HandlerBehaviours) :
       call' = AfterPreApiCall(call, apiHandlers, hb)
  /\ UNCHANGED <<regVars, srvVars, msgCall, http>>

ApiHandlerResume ==
  /\ call.pc = "awaitHandler"
  /\ Settled(call.pending)
  /\ LET rv == IF call.pending.how = "resolve"
               THEN ValidateResponse(options, protocol, call.name, call.pending.val)
               ELSE "none"
     IN \E ve \in (IF rv = "throw" THEN HookThrown ELSE {NoThrow}),
           rb \in Pick(rv = "true" /\ flows["preApiReturn"] # Unbound, HookBehaviours),
           qb \in Pick(rv = "true" /\ flows["preApiReturn"] = Unbound
                         /\ flows["postApiCall"] # Unbound, HookBehaviours) :
          call' = AfterHandler(call, options, protocol, flows, ve, rb, qb)
  /\ UNCHANGED <<regVars, srvVars, msgCall, http>>

ApiPreReturnResume ==
  /\ call.pc = "awaitPreApiReturn"
  /\ Settled(call.pending)
  /\ \E qb \in Pick(call.pending.how = "resolve" /\ call.pending.calls
                      /\ flows["postApiCall"] # Unbound, HookBehaviours) :
       call' = AfterPreApiReturn(call, flows, qb)
  /\ UNCHANGED <<regVars, srvVars, msgCall, http>>

\* the detached postApiCall promise settles; a rejection is logged
PostApiCallSettle ==
  /\ call.post = "pending"
  /\ Settled(call.postBeh)
  /\ call' = [call EXCEPT !.post = IF call.postBeh.how = "reject" THEN "logged" ELSE "settled"]
  /\ UNCHANGED <<regVars, srvVars, msgCall, http>>

ImplementApiStep == \E n \in Names, h \in HandlerIds : implementApi(n, h)

ImplementApiAnyStep == \E n \in Names, h \in AllHandlerIds : implementApi(n, h)

SetFlowsApiStep ==
  \E ps \in {q \in SUBSET ApiFlowPoints : Cardinality(q) <= MaxFlowsPerCall} :
    \E partial \in [ps -> HookIds \cup {Unbound}] : setFlows(partial)

(***************************************************************************)
(* LightweightServer.handleMsgCall                                         *)
(***************************************************************************)
\* protocol.validators?.msg[msgName] : for a key of Object.prototype the
\* inherited function is found, called, and its result is truthy
\* faulty variant: a custom validator keyed by the message name is consulted
ValidateMessage_CustomFallback(opts, pr, name, data) ==
  IF ~opts.enableValidation THEN "true"
  ELSE IF name \in DOMAIN pr.validators.msg
       THEN ValidatorResult(pr.validators.msg[name], data)
  ELSE IF CustomApiValidator(opts, name, "req") # NoValidator
       THEN ValidatorResult(CustomApiValidator(opts, name, "req"), data)
  ELSE "true"

ValidateMessage(opts, pr, name, data) ==
  IF ~opts.enableValidation THEN "true"
  ELSE IF name \in DOMAIN pr.validators.msg
       THEN ValidatorResult(pr.validators.msg[name], data)
  ELSE "true"

validateMessage(name, data) ==
  /\ lastRet' = Verdict("validateMessage", name, data,
                        ValidateMessage(options, protocol, name, data))
  /\ UNCHANGED <<options, serviceMap, protocol, registered>>

\* the handler id 0 of the fresh list is never read
listenMsg(name, handler) ==
  /\ (name \in DOMAIN msgHandlers => Len(msgHandlers[name]) < MaxHandlers)
  /\ serviceMap' = RegisterMsgMap(serviceMap, name)
  /\ protocol' = RegisterMsgProtocol(serviceMap, protocol, options, name, NoValidator)
  /\ registered' = registered \cup {<<"msg", name>>}
  /\ msgHandlers' = Put(msgHandlers, name,
                        Append(IF name \in DOMAIN msgHandlers THEN msgHandlers[name] ELSE <<>>,
                               handler))
  /\ UNCHANGED <<options, lastRet, apiHandlers, flows, ioVars, callVars>>

\* what a message handler does when invoked
MsgHandlerBehaviours == {"return", "throwSync", "resolveLater", "rejectLater", "hang"}

\* the state of the promise Promise.resolve(handler(msg, context)).catch(...)
\* right after the handler was invoked
StatusAfterInvoke(b) ==
  IF b = "return" THEN "fulfilled"
  ELSE IF b = "resolveLater" THEN "pendingResolve"
  ELSE IF b = "rejectLater" THEN "pendingReject"
  ELSE IF b = "hang" THEN "hung"
  ELSE "threw"

IdleMsgCall ==
  [pc |-> "idle", name |-> NamePool[1], msg |-> 0, msgValid |-> "none",
   preOut |-> "none", pending |-> NoBeh, entries |-> <<>>, hs |-> <<>>, logged |-> 0]

NewMsgCall(name, msg) == [IdleMsgCall EXCEPT !.pc = "running", !.name = name, !.msg = msg]

\* index of the first handler that throws synchronously, 0 if none
FirstThrow(bs) ==
  IF \E i \in 1..Len(bs) : bs[i] = "throwSync"
  THEN CHOOSE i \in 1..Len(bs) :
         bs[i] = "throwSync" /\ \A j \in 1..(i - 1) : bs[j] # "throwSync"
  ELSE 0

\* handlers.map(handler => Promise.resolve(handler(msg, context)).catch(...)):
\* the handlers are invoked in order; a synchronous throw leaves map, is
\* caught by the outer catch block and handleMsgCall completes at once
FanOut(k, handlers, bs) ==
  IF k.name \notin DOMAIN handlers
  THEN [k EXCEPT !.pc = "completed", !.pending = NoBeh]
  ELSE LET ft == FirstThrow(bs) IN
       [k EXCEPT !.pending = NoBeh,
                 !.entries = handlers[k.name],
                 !.hs = [i \in 1..Len(bs) |->
                           IF ft # 0 /\ i > ft THEN "notInvoked"
                           ELSE StatusAfterInvoke(bs[i])],
                 !.logged = IF ft # 0 THEN @ + 1 ELSE @,
                 !.pc = IF ft # 0 THEN "completed" ELSE "awaitHandlers"]

\* faulty variant: shouldContinue is not consulted after preMsgReceive
AfterPreMsgReceive_IgnoresContinue(k, handlers, bs) ==
  IF k.pending.how = "reject"
  THEN [k EXCEPT !.pc = "completed", !.pending = NoBeh, !.logged = @ + 1]
  ELSE FanOut(k, handlers, bs)

\* the awaited preMsgReceive hook has settled
AfterPreMsgReceive(k, handlers, bs) ==
  IF k.pending.how = "reject"
  THEN [k EXCEPT !.pc = "completed", !.pending = NoBeh, !.logged = @ + 1]
  ELSE IF ~k.pending.calls
  THEN [k EXCEPT !.pc = "completed", !.pending = NoBeh]
  ELSE FanOut(k, handlers, bs)

\* from the entry of handleMsgCall to its first await
HandleMsgCallStart(k, opts, pr, fl, handlers, pb, bs) ==
  LET mv == ValidateMessage(opts, pr, k.name, k.msg)
      k1 == [k EXCEPT !.msgValid = mv]
  IN IF mv # "true"
     THEN [k1 EXCEPT !.pc = "completed", !.logged = @ + 1]
     ELSE IF fl["preMsgReceive"] # Unbound
     THEN IF pb.how = "throwSync"
          THEN [k1 EXCEPT !.pc = "completed", !.preOut = Outcome(pb), !.logged = @ + 1]
          ELSE [k1 EXCEPT !.pc = "awaitPreMsgReceive", !.preOut = Outcome(pb), !.pending = pb]
     ELSE FanOut(k1, handlers, bs)

\* the behaviours of the handlers bound to `name`, one per list entry
BehavioursFor(cond, handlers, name) ==
  IF cond /\ name \in DOMAIN handlers
  THEN [1..Len(handlers[name]) -> MsgHandlerBehaviours]
  ELSE {<<>>}

MsgCallStart ==
  /\ msgCall.pc \in {"idle", "completed"}
  /\ \E n \in Names, d \in Data :
       LET mv == ValidateMessage(options, protocol, n, d)
           hooked == mv = "true" /\ flows["preMsgReceive"] # Unbound
       IN \E pb \in Pick(hooked, HookBehaviours),
             bs \in BehavioursFor(mv = "true" /\ ~hooked, msgHandlers, n) :
            msgCall' = HandleMsgCallStart(NewMsgCall(n, d), options, protocol, flows,
                                          msgHandlers, pb, bs)
  /\ UNCHANGED <<regVars, srvVars, call, http>>

MsgPreReceiveResume ==
  /\ msgCall.pc = "awaitPreMsgReceive"
  /\ Settled(msgCall.pending)
  /\ \E bs \in BehavioursFor(msgCall.pending.how = "resolve" /\ msgCall.pending.calls,
                             msgHandlers, msgCall.name) :
       msgCall' = AfterPreMsgReceive(msgCall, msgHandlers, bs)
  /\ UNCHANGED <<regVars, srvVars, call, http>>

\* a pending handler promise settles; a rejection is caught and logged
MsgHandlerSettle ==
  /\ \E i \in 1..Len(msgCall.hs) :
       /\ msgCall.hs[i] \in {"pendingResolve", "pendingReject"}
       /\ msgCall' = [msgCall EXCEPT
            !.hs[i] = IF msgCall.hs[i] = "pendingResolve" THEN "fulfilled" ELSE "rejected",
            !.logged = IF msgCall.hs[i] = "pendingReject" THEN @ + 1 ELSE @]
  /\ UNCHANGED <<regVars, srvVars, call, http>>

\* Promise.all resolves once every wrapped promise is fulfilled
MsgCallComplete ==
  /\ msgCall.pc = "awaitHandlers"
  /\ \A i \in 1..Len(msgCall.hs) : msgCall.hs[i] \in {"fulfilled", "rejected"}
  /\ msgCall' = [msgCall EXCEPT !.pc = "completed"]
  /\ UNCHANGED <<regVars, srvVars, call, http>>

ListenMsgStep == \E n \in Names, h \in HandlerIds : listenMsg(n, h)

SetFlowsMsgStep ==
  \E partial \in [{"preMsgReceive"} -> HookIds \cup {Unbound}] : setFlows(partial)

(***************************************************************************)
(* LightweightHttpServer.handleJsonRequest                                 *)
(***************************************************************************)
\* the body of a response: the acknowledgement {success: true}, a result
\* envelope, or the error object sendError writes
\* `sn` is <<n>> when the written object carries the sequence number n, and
\* NoSn when it has no such key
NoSn == <<>>
NoBody == [kind |-> "none", env |-> NoEnvelope, sn |-> NoSn]
AckBody == [kind |-> "ack", env |-> NoEnvelope, sn |-> NoSn]
EnvelopeBody(env) == [kind |-> "envelope", env |-> env, sn |-> NoSn]
ErrorBody(status, message) ==
  [kind |-> "error", env |-> Failure(message, status, "ServerError"), sn |-> NoSn]

\* `binary` tells a request handled by handleBinaryRequest and `sn` is its
\* input.sn; `ended` tells that res.end has been called
IdleHttp ==
  [pc |-> "idle", isMsg |-> FALSE, parsed |-> FALSE, headersSent |-> FALSE,
   status |-> 0, body |-> NoBody, writes |-> 0, sn |-> NoSn, binary |-> FALSE,
   ended |-> FALSE]

NewHttp(isMsg) == [IdleHttp EXCEPT !.pc = "running", !.isMsg = isMsg]

\* res.writeHead(status, ...) followed by res.end(body)
WriteResponse(h, status, body) ==
  [h EXCEPT !.pc = "done", !.headersSent = TRUE, !.status = status, !.body = body,
            !.writes = @ + 1, !.ended = TRUE]

\* res.writeHead(status, ...) alone
WriteHead(h, status) == [h EXCEPT !.headersSent = TRUE, !.status = status]

SendError(h, status, message) ==
  IF h.headersSent THEN [h EXCEPT !.pc = "done"]
  ELSE WriteResponse(h, status, ErrorBody(status, message))

\* faulty variant: a failure logged during the message call is reported
MsgResponse_SurfacesFailure(h, k) ==
  IF k.logged > 0 THEN SendError(h, 500, "Message call failed")
  ELSE WriteResponse(h, 200, AckBody)

\* the message branch after the awaited handleMsgCall has resolved
MsgResponse(h, k) == WriteResponse(h, 200, AckBody)

\* the API branch after the awaited handleApiCall has settled: a rejection
\* is caught by the catch block of handleJsonRequest, and so is an exception
\* of JSON.stringify(result), which is evaluated after res.writeHead and
\* before res.end; `ser` is the outcome of JSON.stringify
ApiResponse(h, k, ser) ==
  IF k.pc # "returned"
  THEN SendError(h, 400, "JSON parse error: Cannot read properties of null")
  ELSE IF ser = "ok" THEN WriteResponse(h, 200, EnvelopeBody(k.ret))
  ELSE SendError(WriteHead(h, 200), 400, "JSON parse error: cannot serialize")

\* from the entry of handleJsonRequest to its first await, for a service
\* name of `names` and an isMsg of `kinds`; `parse` is the outcome of
\* JSON.parse on the body
HandleJsonRequestFor(names, kinds) ==
  \E n \in names, isMsg \in kinds, parse \in {"ok", "syntaxError"}, d \in Data :
     IF parse = "syntaxError"
     THEN /\ http' = SendError(NewHttp(isMsg), 400, "JSON parse error: Unexpected token")
          /\ call' = IdleCall
          /\ msgCall' = IdleMsgCall
     ELSE IF isMsg
     THEN LET mv == ValidateMessage(options, protocol, n, d)
              hooked == mv = "true" /\ flows["preMsgReceive"] # Unbound
          IN \E pb \in Pick(hooked, HookBehaviours),
                bs \in BehavioursFor(mv = "true" /\ ~hooked, msgHandlers, n) :
               /\ msgCall' = HandleMsgCallStart(NewMsgCall(n, d), options, protocol,
                                                flows, msgHandlers, pb, bs)
               /\ call' = IdleCall
               /\ http' = [NewHttp(TRUE) EXCEPT !.pc = "awaitMsgCall", !.parsed = TRUE]
     ELSE LET qv == ValidateRequest(options, protocol, n, d)
              hooked == qv = "true" /\ flows["preApiCall"] # Unbound
              direct == qv = "true" /\ flows["preApiCall"] = Unbound
                        /\ n \in DOMAIN apiHandlers
          IN \E ve \in (IF qv = "throw" THEN HookThrown ELSE {NoThrow}),
                pb \in Pick(hooked, HookBehaviours),
                hb \in Pick(direct, HandlerBehaviours) :
               /\ call' = HandleApiCallStart(NewCall(n, d), options, protocol, flows,
                                             apiHandlers, ve, pb, hb)
               /\ msgCall' = IdleMsgCall
               /\ http' = [NewHttp(FALSE) EXCEPT !.pc = "awaitApiCall", !.parsed = TRUE]

HandleJsonRequestEntry == HandleJsonRequestFor(Names, BOOLEAN)

\* a JSON request handed directly to handleJsonRequest
HttpJsonRequest ==
  /\ http.pc \in {"idle", "done"}
  /\ HandleJsonRequestEntry
  /\ UNCHANGED <<regVars, srvVars>>

HttpMsgRespond ==
  /\ http.pc = "awaitMsgCall"
  /\ msgCall.pc = "completed"
  /\ http' = MsgResponse(http, msgCall)
  /\ UNCHANGED <<regVars, srvVars, call, msgCall>>

HttpApiRespond ==
  /\ http.pc = "awaitApiCall"
  /\ call.pc \in {"returned", "rejected"}
  /\ \E ser \in (IF call.pc = "returned" /\ call.ret.isSucc THEN {"ok", "throws"}
                 ELSE {"ok"}) :
       http' = ApiResponse(http, call, ser)
  /\ UNCHANGED <<regVars, srvVars, call, msgCall>>

(***************************************************************************)
(* LightweightHttpServer.parseUrlPath                                      *)
(***************************************************************************)
\* serverOptions.jsonHostPath after formatJsonHostPath: "/api/"
JsonHostPath == <<"/", "a", "p", "i", "/">>

\* serverOptions.maxBodySize: 10 * 1024 * 1024
MaxBodySize == 10485760

\* the characters of the service names
NameChars ==
  [n \in Names |->
     IF n = "math/add" THEN <<"m", "a", "t", "h", "/", "a", "d", "d">>
     ELSE IF n = "user/login" THEN <<"u", "s", "e", "r", "/", "l", "o", "g", "i", "n">>
     ELSE IF n = "chat/msg" THEN <<"c", "h", "a", "t", "/", "m", "s", "g">>
     ELSE IF n = "test/error" THEN <<"t", "e", "s", "t", "/", "e", "r", "r", "o", "r">>
     ELSE <<"c", "o", "n", "s", "t", "r", "u", "c", "t", "o", "r">>]

\* the value of an absent serviceName
NoServiceName == "undefined"

\* url.indexOf(c), counted from 1; 0 when c does not occur
IndexOf(t, c) ==
  IF \E i \in 1..Len(t) : t[i] = c
  THEN CHOOSE i \in 1..Len(t) : t[i] = c /\ \A j \in 1..(i - 1) : t[j] # c
  ELSE 0

StartsWith(t, prefix) ==
  Len(t) >= Len(prefix) /\ SubSeq(t, 1, Len(prefix)) = prefix

\* queryString.split("&")
RECURSIVE SplitAmp(_)
SplitAmp(t) ==
  LET i == IndexOf(t, "&") IN
  IF i = 0 THEN <<t>>
  ELSE <<SubSeq(t, 1, i - 1)>> \o SplitAmp(SubSeq(t, i + 1, Len(t)))

TypeMsg == <<"t", "y", "p", "e", "=", "m", "s", "g">>

\* the name a sequence of characters spells
NameOf(chars) ==
  IF \E n \in Names : NameChars[n] = chars
  THEN CHOOSE n \in Names : NameChars[n] = chars
  ELSE NoServiceName

\* faulty variant: an empty service name is passed on
ParseUrlPath_KeepsEmptyName(url) ==
  LET q == IndexOf(url, "?")
      path == IF q = 0 THEN url ELSE SubSeq(url, 1, q - 1)
      isMsg == q # 0 /\ Includes(SplitAmp(SubSeq(url, q + 1, Len(url))), TypeMsg)
  IN IF ~StartsWith(path, JsonHostPath)
     THEN [serviceName |-> NoServiceName, isMsg |-> isMsg]
     ELSE [serviceName |-> IF Len(path) = Len(JsonHostPath) THEN NamePool[1]
                           ELSE NameOf(SubSeq(path, Len(JsonHostPath) + 1, Len(path))),
           isMsg |-> isMsg]

\* an empty service name becomes undefined
ParseUrlPath(url) ==
  LET q == IndexOf(url, "?")
      path == IF q = 0 THEN url ELSE SubSeq(url, 1, q - 1)
      isMsg == q # 0 /\ Includes(SplitAmp(SubSeq(url, q + 1, Len(url))), TypeMsg)
  IN IF ~StartsWith(path, JsonHostPath)
     THEN [serviceName |-> NoServiceName, isMsg |-> isMsg]
     ELSE [serviceName |-> IF Len(path) = Len(JsonHostPath) THEN NoServiceName
                           ELSE NameOf(SubSeq(path, Len(JsonHostPath) + 1, Len(path))),
           isMsg |-> isMsg]

\* the urls of the requests
Queries ==
  {<<>>, <<"?">> \o TypeMsg, <<"?", "a", "&">> \o TypeMsg, <<"?">> \o TypeMsg \o <<"s">>}
Paths ==
  {JsonHostPath \o NameChars[n] : n \in Names}
  \cup {JsonHostPath, <<"/", "a", "p", "i">>, <<"/">>, <<"/", "v", "1", "/">> \o NameChars[NamePool[1]]}
Urls == {p \o q : p \in Paths, q \in Queries}

\* the lengths of the request bodies
BodyLengths == {0, MaxBodySize, MaxBodySize + 1}

\* the request methods
Methods == {"OPTIONS", "GET", "PUT", "POST"}

(***************************************************************************)
(* RuntimeProtocolGenerator.serialize and deserialize                      *)
(***************************************************************************)
\* JSON values: `n` and `neg` are magnitude and sign of a number (negative
\* zero is the number with magnitude 0 and sign), `s` the characters of a
\* string, `items` the elements of an array or the member values of an
\* object, and `key` the key under which a value sits in an object
JsonValue(t, neg, n, s, items) ==
  [t |-> t, neg |-> neg, n |-> n, s |-> s, items |-> items, key |-> <<>>]
Null == JsonValue("null", FALSE, 0, <<>>, <<>>)
Bool(b) == JsonValue(IF b THEN "true" ELSE "false", FALSE, 0, <<>>, <<>>)
Number(neg, n) == JsonValue("number", neg, n, <<>>, <<>>)
Str(s) == JsonValue("string", FALSE, 0, s, <<>>)
Arr(items) == JsonValue("array", FALSE, 0, <<>>, items)
Obj(items) == JsonValue("object", FALSE, 0, <<>>, items)
Member(k, v) == [v EXCEPT !.key = k]

\* characters are one-character strings; EAcute stands for U+00E9, whose
\* UTF-8 encoding has two bytes
EAcute == "U+00E9"
DigitChars == <<"0", "1", "2", "3", "4", "5", "6", "7", "8", "9">>
AsciiChars ==
  <<"\"", ",", "-", "0", "1", "2", "3", "4", "5", "6", "7", "8", "9", ":",
    "[", "\\", "]", "a", "e", "f", "k", "l", "n", "r", "s", "t", "u", "{", "}", "\n",
    "/", "N", "c", "d", "g", "h", "i", "m", "o", "p", "v", "y">>
AsciiCodes ==
  <<34, 44, 45, 48, 49, 50, 51, 52, 53, 54, 55, 56, 57, 58,
    91, 92, 93, 97, 101, 102, 107, 108, 110, 114, 115, 116, 117, 123, 125, 10,
    47, 78, 99, 100, 103, 104, 105, 109, 111, 112, 118, 121>>

\* the concatenation of a sequence of sequences, by halves
RECURSIVE Flatten(_)
Flatten(ss) ==
  IF Len(ss) = 0 THEN <<>>
  ELSE IF Len(ss) = 1 THEN ss[1]
  ELSE LET mid == Len(ss) \div 2 IN
       Flatten(SubSeq(ss, 1, mid)) \o Flatten(SubSeq(ss, mid + 1, Len(ss)))

Join(ss) == Flatten([i \in 1..Len(ss) |-> IF i = 1 THEN ss[i] ELSE <<",">> \o ss[i]])

RECURSIVE Digits(_)
Digits(n) ==
  IF n < 10 THEN <<DigitChars[n + 1]>>
  ELSE Digits(n \div 10) \o <<DigitChars[(n % 10) + 1]>>

\* JSON.stringify of a string: quote, backslash and control characters are
\* escaped
EscapeChar(c) ==
  IF c = "\"" THEN <<"\\", "\"">>
  ELSE IF c = "\\" THEN <<"\\", "\\">>
  ELSE IF c = "\n" THEN <<"\\", "n">>
  ELSE <<c>>
Quote(s) == <<"\"">> \o Flatten([i \in 1..Len(s) |-> EscapeChar(s[i])]) \o <<"\"">>

\* JSON.stringify: Number::toString gives "0" for negative zero
RECURSIVE Stringify(_)
Stringify(v) ==
  IF v.t = "null" THEN <<"n", "u", "l", "l">>
  ELSE IF v.t = "true" THEN <<"t", "r", "u", "e">>
  ELSE IF v.t = "false" THEN <<"f", "a", "l", "s", "e">>
  ELSE IF v.t = "number"
  THEN (IF v.neg /\ v.n # 0 THEN <<"-">> ELSE <<>>) \o Digits(v.n)
  ELSE IF v.t = "string" THEN Quote(v.s)
  ELSE IF v.t = "array"
  THEN <<"[">> \o Join([i \in 1..Len(v.items) |-> Stringify(v.items[i])]) \o <<"]">>
  ELSE <<"{">>
       \o Join([i \in 1..Len(v.items) |->
                  Quote(v.items[i].key) \o <<":">> \o Stringify(v.items[i])])
       \o <<"}">>

\* TextEncoder.encode: UTF-8
Utf8(c) ==
  IF c = EAcute THEN <<195, 169>>
  ELSE <<AsciiCodes[CHOOSE i \in 1..Len(AsciiChars) : AsciiChars[i] = c]>>
TextEncode(text) == Flatten([i \in 1..Len(text) |-> Utf8(text[i])])

\* faulty variant: every byte is taken for a character of its own
TextDecode_BytePerChar(bytes) ==
  [i \in 1..Len(bytes) |->
     IF \E k \in 1..Len(AsciiCodes) : AsciiCodes[k] = bytes[i]
     THEN AsciiChars[CHOOSE k \in 1..Len(AsciiCodes) : AsciiCodes[k] = bytes[i]]
     ELSE "?"]

\* TextDecoder.decode: a lead byte with its continuation bytes is one
\* character
TextDecode(bytes) ==
  LET IsLead(p) == p[2] < 128 \/ p[2] >= 192
      CharAt(p) ==
        IF p[2] = 195 /\ p[1] < Len(bytes) /\ bytes[p[1] + 1] = 169 THEN EAcute
        ELSE IF \E k \in 1..Len(AsciiCodes) : AsciiCodes[k] = p[2]
        THEN AsciiChars[CHOOSE k \in 1..Len(AsciiCodes) : AsciiCodes[k] = p[2]]
        ELSE "?"
      leads == SelectSeq([i \in 1..Len(bytes) |-> <<i, bytes[i]>>], IsLead)
  IN [i \in 1..Len(leads) |-> CharAt(leads[i])]

\* JSON.parse, for texts without white space, fractions and exponents
ParseFail == [ok |-> FALSE, val |-> Null, next |-> 0]
Parsed(v, next) == [ok |-> TRUE, val |-> v, next |-> next]
Ch(t, i) == IF i >= 1 /\ i <= Len(t) THEN t[i] ELSE "EOF"
IsDigit(c) == \E k \in 1..10 : DigitChars[k] = c
DigitValue(c) == (CHOOSE k \in 1..10 : DigitChars[k] = c) - 1

\* the number of backslashes that directly precede position j
BackslashRun(t, j) ==
  CHOOSE k \in 0..(j - 1) :
    /\ \A m \in 1..k : t[j - m] = "\\"
    /\ (k = j - 1 \/ t[j - k - 1] # "\\")

\* a character is escaped when an odd number of backslashes precedes it
Escaped(t, j) == BackslashRun(t, j) % 2 = 1

\* the closing quote of the string that opens at position i, 0 if none
StringEnd(t, i) ==
  LET closing == {j \in (i + 1)..Len(t) : t[j] = "\"" /\ ~Escaped(t, j)} IN
  IF closing = {} THEN 0
  ELSE CHOOSE j \in closing : \A m \in closing : j <= m

\* the characters of the string between the quotes at i and j
Unescape(t, i, j) ==
  LET Kept(p) == ~(p[2] = "\\" /\ ~Escaped(t, p[1]))
      kept == SelectSeq([m \in 1..(j - i - 1) |-> <<i + m, t[i + m]>>], Kept)
  IN [m \in 1..Len(kept) |->
        IF Escaped(t, kept[m][1]) /\ kept[m][2] = "n" THEN "\n" ELSE kept[m][2]]

\* the last digit of the run of digits that starts at position i
DigitsEnd(t, i) ==
  CHOOSE e \in i..Len(t) :
    /\ \A m \in i..e : IsDigit(t[m])
    /\ ~IsDigit(Ch(t, e + 1))

RECURSIVE DigitsValue(_, _, _)
DigitsValue(t, i, e) ==
  IF e < i THEN 0 ELSE DigitsValue(t, i, e - 1) * 10 + DigitValue(t[e])

ParseLiteral(t, i, word, v) ==
  IF i + Len(word) - 1 <= Len(t) /\ SubSeq(t, i, i + Len(word) - 1) = word
  THEN Parsed(v, i + Len(word))
  ELSE ParseFail

ParseString(t, i) ==
  IF Ch(t, i) # "\"" \/ StringEnd(t, i) = 0 THEN ParseFail
  ELSE Parsed(Str(Unescape(t, i, StringEnd(t, i))), StringEnd(t, i) + 1)

\* JSON.parse keeps the sign of "-0"
ParseNumber(t, i) ==
  LET neg == Ch(t, i) = "-"
      first == IF neg THEN i + 1 ELSE i
  IN IF ~IsDigit(Ch(t, first)) THEN ParseFail
     ELSE Parsed(Number(neg, DigitsValue(t, first, DigitsEnd(t, first))),
                 DigitsEnd(t, first) + 1)

RECURSIVE ParseValue(_, _)
RECURSIVE ParseItems(_, _, _)
RECURSIVE ParseMembers(_, _, _)

ParseValue(t, i) ==
  LET c == Ch(t, i) IN
  IF c = "n" THEN ParseLiteral(t, i, <<"n", "u", "l", "l">>, Null)
  ELSE IF c = "t" THEN ParseLiteral(t, i, <<"t", "r", "u", "e">>, Bool(TRUE))
  ELSE IF c = "f" THEN ParseLiteral(t, i, <<"f", "a", "l", "s", "e">>, Bool(FALSE))
  ELSE IF c = "\"" THEN ParseString(t, i)
  ELSE IF c = "-" \/ IsDigit(c) THEN ParseNumber(t, i)
  ELSE IF c = "[" THEN
         (IF Ch(t, i + 1) = "]" THEN Parsed(Arr(<<>>), i + 2) ELSE ParseItems(t, i + 1, <<>>))
  ELSE IF c = "{" THEN
         (IF Ch(t, i + 1) = "}" THEN Parsed(Obj(<<>>), i + 2) ELSE ParseMembers(t, i + 1, <<>>))
  ELSE ParseFail

\* the elements of an array from position i on, `acc` the ones already read
ParseItems(t, i, acc) ==
  LET r == ParseValue(t, i) IN
  IF ~r.ok THEN ParseFail
  ELSE IF Ch(t, r.next) = "," THEN ParseItems(t, r.next + 1, Append(acc, r.val))
  ELSE IF Ch(t, r.next) = "]" THEN Parsed(Arr(Append(acc, r.val)), r.next + 1)
  ELSE ParseFail

\* the members of an object from position i on
ParseMembers(t, i, acc) ==
  LET k == ParseString(t, i) IN
  IF ~k.ok \/ Ch(t, k.next) # ":" THEN ParseFail
  ELSE LET r == ParseValue(t, k.next + 1) IN
       IF ~r.ok THEN ParseFail
       ELSE IF Ch(t, r.next) = ","
       THEN ParseMembers(t, r.next + 1, Append(acc, Member(k.val.s, r.val)))
       ELSE IF Ch(t, r.next) = "}"
       THEN Parsed(Obj(Append(acc, Member(k.val.s, r.val))), r.next + 1)
       ELSE ParseFail

\* JSON.parse: the whole text must be one value; otherwise a SyntaxError
NoParse == [ok |-> FALSE, val |-> Null]
JsonParse(t) ==
  LET r == ParseValue(t, 1) IN
  IF r.ok /\ r.next = Len(t) + 1 THEN [ok |-> TRUE, val |-> r.val] ELSE NoParse

\* the fixed threshold of the auto mode
AutoThreshold == 1024

Modes == {"json", "binary", "auto"}

\* what serialize returns: a string or a Uint8Array
NoOutput == [kind |-> "none", text |-> <<>>, bytes |-> <<>>]
StringOutput(text) == [kind |-> "string", text |-> text, bytes |-> <<>>]
BytesOutput(bytes) == [kind |-> "bytes", text |-> <<>>, bytes |-> bytes]

\* faulty variant: a text of exactly the threshold length goes to bytes
Serialize_ThresholdInclusive(data, type) ==
  LET jsonStr == Stringify(data)
      chosen == IF type = "auto"
                THEN (IF Len(jsonStr) >= AutoThreshold THEN "binary" ELSE "json")
                ELSE type
  IN IF chosen = "json" THEN StringOutput(jsonStr) ELSE BytesOutput(TextEncode(jsonStr))

Serialize(data, type) ==
  LET jsonStr == Stringify(data)
      chosen == IF type = "auto"
                THEN (IF Len(jsonStr) > AutoThreshold THEN "binary" ELSE "json")
                ELSE type
  IN IF chosen = "json" THEN StringOutput(jsonStr) ELSE BytesOutput(TextEncode(jsonStr))

Deserialize(data) ==
  IF data.kind = "string" THEN JsonParse(data.text)
  ELSE JsonParse(TextDecode(data.bytes))

\* the JSON values serialize is applied to
Chars(k, c) == [i \in 1..k |-> c]
ShortStrings ==
  {<<>>, <<"a">>, <<"a", "\"">>, <<"\\">>, <<"\\", "\"">>, <<"\n", "a">>, <<EAcute>>,
   <<"\\", "n">>}
\* strings whose JSON text is just below, at and just above the threshold,
\* counted in characters or in bytes
LongStrings ==
  {Chars(k, "a") : k \in (AutoThreshold - 3)..(AutoThreshold - 1)}
  \cup {<<EAcute>> \o Chars(k, "a") : k \in (AutoThreshold - 4)..(AutoThreshold - 2)}
Scalars ==
  {Null, Bool(TRUE), Bool(FALSE), Number(FALSE, 0), Number(TRUE, 0), Number(FALSE, 7),
   Number(TRUE, 120)}
  \cup {Str(s) : s \in ShortStrings \cup LongStrings}
NestedScalars == {Null, Bool(TRUE), Number(TRUE, 0), Number(FALSE, 10), Str(<<"a", "\"">>)}
Keys == {<<"k">>, <<EAcute, "\"">>}
Arrays == UNION {{Arr(items) : items \in [1..k -> NestedScalars]} : k \in 0..MaxItems}
Objects ==
  UNION {{Obj([i \in 1..k |-> Member(ks[i], vs[i])]) :
            ks \in {q \in [1..k -> Keys] : \A i, j \in 1..k : i # j => q[i] # q[j]},
            vs \in [1..k -> NestedScalars]} : k \in 0..MaxItems}
Nested ==
  {Arr(<<Arr(<<Number(FALSE, 1)>>), Obj(<<Member(<<"k">>, Str(<<EAcute>>))>>)>>),
   Obj(<<Member(<<"k">>, Arr(<<Null, Number(TRUE, 7)>>))>>)}
JsonValues == Scalars \cup Arrays \cup Objects \cup Nested

IdleCodec == [pc |-> "idle", x |-> Null, mode |-> "json", out |-> NoOutput, back |-> NoParse]

serialize ==
  /\ codec.pc = "idle"
  /\ \E x \in JsonValues, mode \in Modes :
       codec' = [IdleCodec EXCEPT !.pc = "serialized", !.x = x, !.mode = mode,
                                  !.out = Serialize(x, mode)]
  /\ UNCHANGED <<regVars, apiHandlers, msgHandlers, flows, connections, request, send, callVars, call2, standalone, disconnected, lifecycle>>

deserialize ==
  /\ codec.pc = "serialized"
  /\ codec' = [codec EXCEPT !.pc = "deserialized", !.back = Deserialize(codec.out)]
  /\ UNCHANGED <<regVars, apiHandlers, msgHandlers, flows, connections, request, send, callVars, call2, standalone, disconnected, lifecycle>>

(***************************************************************************)
(* LightweightHttpServer.handleBinaryRequest                               *)
(***************************************************************************)
\* the sequence numbers a binary frame can carry
Sns == {NoSn, <<0>>, <<1>>}

\* { ...result, sn: input.sn } serialized: a key whose value is undefined is
\* left out by JSON.stringify
SnBody(env, sn) == [kind |-> "envelope", env |-> env, sn |-> sn]

\* the API branch after the awaited handleApiCall has settled; `ser` is the
\* outcome of serialize on the envelope. A rejection of the call and an
\* exception of serialize leave handleBinaryRequest, which has no try block
BinaryApiResponse(h, k, ser) ==
  IF k.pc = "returned" /\ ser = "ok"
  THEN WriteResponse(h, 200, SnBody(k.ret, h.sn))
  ELSE [h EXCEPT !.pc = "failed"]

\* the texts of the keys and of the type tags of a frame
KeyType == <<"t", "y", "p", "e">>
KeyServiceName == <<"s", "e", "r", "v", "i", "c", "e", "N", "a", "m", "e">>
KeyData == <<"d", "a", "t", "a">>
KeySn == <<"s", "n">>
TypeChars ==
  [k \in Kinds \cup {"any"} |->
     IF k = "api" THEN <<"a", "p", "i">>
     ELSE IF k = "msg" THEN <<"m", "s", "g">>
     ELSE <<"a", "n", "y">>]

\* what a client serializes to call a service
FrameValue(type, name, d, sn) ==
  Obj(<<Member(KeyType, Str(TypeChars[type])),
        Member(KeyServiceName, Str(NameChars[name])),
        Member(KeyData, Number(FALSE, d))>>
      \o (IF sn = NoSn THEN <<>> ELSE <<Member(KeySn, Number(FALSE, sn[1]))>>))

\* request bodies: the frames of the clients, a frame with a type tag that is
\* neither "api" nor "msg", and bodies that are not such frames: a broken
\* text, the text null, a number, and objects with a missing or empty type
\* or serviceName
WellFormedFrames ==
  {TextEncode(Stringify(FrameValue(k, n, d, sn))) :
     k \in Kinds, n \in Names, d \in Data, sn \in Sns}
  \cup {TextEncode(Stringify(FrameValue("any", NamePool[1], 0, NoSn)))}
MalformedFrames ==
  {TextEncode(<<"{", "\"", "t">>),
   TextEncode(Stringify(Null)),
   TextEncode(Stringify(Number(FALSE, 1))),
   TextEncode(Stringify(Obj(<<Member(KeyType, Str(TypeChars["api"]))>>))),
   TextEncode(Stringify(Obj(<<Member(KeyServiceName, Str(NameChars[NamePool[1]]))>>))),
   TextEncode(Stringify(Obj(<<Member(KeyType, Str(<<>>)),
                              Member(KeyServiceName, Str(NameChars[NamePool[1]]))>>))),
   TextEncode(Stringify(Obj(<<Member(KeyType, Str(TypeChars["api"])),
                              Member(KeyServiceName, Number(FALSE, 0))>>)))}
Frames == WellFormedFrames \cup MalformedFrames

\* protocolGenerator.deserialize of each body
Decoded == [f \in Frames |-> Deserialize(BytesOutput(f))]

\* value[key] of a decoded value that is not null: the last member of that
\* key of an object, undefined otherwise
NoMember == [t |-> "undefined"]
Get(v, key) ==
  LET at == {i \in 1..Len(v.items) : v.items[i].key = key} IN
  IF v.t = "object" /\ at # {}
  THEN v.items[CHOOSE i \in at : \A j \in at : j <= i]
  ELSE NoMember

Truthy(v) ==
  /\ v.t \notin {"undefined", "null", "false"}
  /\ v.t = "number" => v.n # 0
  /\ v.t = "string" => v.s # <<>>

\* the namespace getServiceId reads for a type: every type but 'api'
\* selects the messages
TypeOf(v) ==
  IF v.t = "string" /\ v.s = TypeChars["api"] THEN "api"
  ELSE IF v.t = "string" /\ v.s = TypeChars["msg"] THEN "msg"
  ELSE "any"

NullInput ==
  [isNull |-> TRUE, type |-> "any", serviceName |-> NoServiceName,
   serviceId |-> Undefined, data |-> 0, sn |-> NoSn]

\* parseServerInput after deserialize: `parsed` is what deserialize gave, or
\* its exception; that exception, the TypeError of reading a property of
\* null and the two thrown errors are caught, and null is returned
InputOf(sm, parsed) ==
  IF ~parsed.ok \/ parsed.val.t = "null" THEN NullInput
  ELSE LET type == Get(parsed.val, KeyType)
           name == Get(parsed.val, KeyServiceName)
           d == Get(parsed.val, KeyData)
           sn == Get(parsed.val, KeySn)
           serviceName == IF name.t = "string" THEN NameOf(name.s) ELSE NoServiceName
           serviceId == GetServiceId(sm, serviceName, TypeOf(type))
       IN IF ~Truthy(type) \/ ~Truthy(name) THEN NullInput
          ELSE IF serviceId = Undefined THEN NullInput
          ELSE [isNull |-> FALSE, type |-> TypeOf(type), serviceName |-> serviceName,
                serviceId |-> serviceId,
                data |-> IF d.t = "number" THEN d.n ELSE 0,
                sn |-> IF sn.t = "number" THEN <<sn.n>> ELSE NoSn]

\* LightweightServer.parseServerInput
ParseServerInput(sm, data) == InputOf(sm, Decoded[data])

\* from the entry of handleBinaryRequest to its first await: every input
\* whose type is not 'msg' is handled as an API call
HandleBinaryRequestEntry ==
  \E body \in Frames : \E input \in {ParseServerInput(serviceMap, body)} :
     LET n == input.serviceName
         d == input.data
     IN
     IF input.isNull
     THEN /\ http' = SendError([NewHttp(FALSE) EXCEPT !.binary = TRUE], 400,
                               "Invalid binary data")
          /\ call' = IdleCall
          /\ msgCall' = IdleMsgCall
     ELSE IF input.type = "msg"
     THEN LET mv == ValidateMessage(options, protocol, n, d)
              hooked == mv = "true" /\ flows["preMsgReceive"] # Unbound
          IN \E pb \in Pick(hooked, HookBehaviours),
                bs \in BehavioursFor(mv = "true" /\ ~hooked, msgHandlers, n) :
               /\ msgCall' = HandleMsgCallStart(NewMsgCall(n, d), options, protocol,
                                                flows, msgHandlers, pb, bs)
               /\ call' = IdleCall
               /\ http' = [NewHttp(TRUE) EXCEPT !.pc = "awaitBinaryMsgCall",
                                                !.parsed = TRUE, !.sn = input.sn,
                                                !.binary = TRUE]
     ELSE LET qv == ValidateRequest(options, protocol, n, d)
              hooked == qv = "true" /\ flows["preApiCall"] # Unbound
              direct == qv = "true" /\ flows["preApiCall"] = Unbound
                        /\ n \in DOMAIN apiHandlers
          IN \E ve \in (IF qv = "throw" THEN HookThrown ELSE {NoThrow}),
                pb \in Pick(hooked, HookBehaviours),
                hb \in Pick(direct, HandlerBehaviours) :
               /\ call' = HandleApiCallStart(NewCall(n, d), options, protocol, flows,
                                             apiHandlers, ve, pb, hb)
               /\ msgCall' = IdleMsgCall
               /\ http' = [NewHttp(FALSE) EXCEPT !.pc = "awaitBinaryApiCall",
                                                 !.parsed = TRUE, !.sn = input.sn,
                                                 !.binary = TRUE]

\* a binary request handed directly to handleBinaryRequest
HttpBinaryRequest ==
  /\ http.pc \in {"idle", "done", "failed"}
  /\ HandleBinaryRequestEntry
  /\ UNCHANGED <<regVars, srvVars>>

\* serialize({ success: true }) cannot fail
HttpBinaryMsgRespond ==
  /\ http.pc = "awaitBinaryMsgCall"
  /\ msgCall.pc = "completed"
  /\ http' = WriteResponse(http, 200, AckBody)
  /\ UNCHANGED <<regVars, srvVars, call, msgCall>>

\* only a success envelope holds a value the handler chose, which JSON.stringify
\* may be unable to serialize
HttpBinaryApiRespond ==
  /\ http.pc = "awaitBinaryApiCall"
  /\ call.pc \in {"returned", "rejected"}
  /\ \E ser \in (IF call.pc = "returned" /\ call.ret.isSucc THEN {"ok", "throws"}
                 ELSE {"ok"}) :
       http' = BinaryApiResponse(http, call, ser)
  /\ UNCHANGED <<regVars, srvVars, call, msgCall>>

(***************************************************************************)
(* LightweightHttpServer.start and stop                                    *)
(***************************************************************************)
MaxStarts == 3

\* `net` is the state of the http.Server instance: "binding" after listen()
\* until its callback or its "error" event, "listening", "failed" after the
\* "error" event, "closing" after close() of a listening server and
\* "closingIdle" after close() of a server that is not listening.  `starts`
\* counts the calls of start(); `ret` is how the last call of start() or
\* stop() ended
NewLifecycle ==
  [status |-> "CLOSED", httpServer |-> FALSE, net |-> "none", starts |-> 0,
   ret |-> "none"]

\* start() up to the return of its promise
Start(l) ==
  IF l.httpServer
  THEN [l EXCEPT !.starts = @ + 1, !.ret = "Server already started"]
  ELSE [l EXCEPT !.starts = @ + 1, !.status = "OPENING", !.httpServer = TRUE,
                 !.net = "binding", !.ret = "pending"]

start ==
  /\ lifecycle.starts < MaxStarts
  /\ lifecycle' = Start(lifecycle)
  /\ UNCHANGED <<regVars, apiHandlers, msgHandlers, flows, connections, request, send, callVars, call2, codec, standalone, disconnected>>

\* the callback of listen()
Listening ==
  /\ lifecycle.net = "binding"
  /\ lifecycle' = [lifecycle EXCEPT !.status = "OPENED", !.net = "listening",
                                    !.ret = "started"]
  /\ UNCHANGED <<regVars, apiHandlers, msgHandlers, flows, connections, request, send, callVars, call2, codec, standalone, disconnected>>

\* the "error" event of the server while it binds: httpServer stays set
ListenError ==
  /\ lifecycle.net = "binding"
  /\ lifecycle' = [lifecycle EXCEPT !.status = "CLOSED", !.net = "failed",
                                    !.ret = "listen error"]
  /\ UNCHANGED <<regVars, apiHandlers, msgHandlers, flows, connections, request, send, callVars, call2, codec, standalone, disconnected>>

\* stop() up to the return of its promise, called while no start() or
\* stop() is pending
stop ==
  /\ lifecycle.net \in {"none", "listening", "failed"}
  /\ lifecycle' =
       IF ~lifecycle.httpServer THEN [lifecycle EXCEPT !.ret = "stopped"]
       ELSE [lifecycle EXCEPT !.status = "CLOSING",
                              !.net = IF @ = "listening" THEN "closing" ELSE "closingIdle",
                              !.ret = "pending"]
  /\ UNCHANGED <<regVars, apiHandlers, msgHandlers, flows, connections, request, send, callVars, call2, codec, standalone, disconnected>>

\* the callback of close(): with an error when the server was not listening
Closed ==
  /\ lifecycle.net \in {"closing", "closingIdle"}
  /\ lifecycle' = [lifecycle EXCEPT !.status = "CLOSED", !.httpServer = FALSE,
                                    !.net = "none",
                                    !.ret = IF lifecycle.net = "closing" THEN "stopped"
                                            ELSE "close error"]
  /\ UNCHANGED <<regVars, apiHandlers, msgHandlers, flows, connections, request, send, callVars, call2, codec, standalone, disconnected>>

(***************************************************************************)
(* LightweightHttpServer.handleRequest and the connection table            *)
(***************************************************************************)
\* connection ids are fresh: generateConnectionId joins the clock and a
\* random string; the model numbers the requests
ConnIds == 1..MaxRequests

\* a LightweightHttpConnection
NewConnection(id) == [id |-> id]

Delete(f, k) == [x \in (DOMAIN f) \ {k} |-> f[x]]

\* `hook` counts the invocations of the onDisconnect hook for each
\* connection id, `closed` holds the ids closeConnection has removed, `ret`
\* is what the last closeConnection returned
NoDisconnects ==
  [hook |-> [c \in ConnIds |-> 0], closed |-> {}, ret |-> "none"]

\* faulty variant: the record stays in the table
CloseConnection_KeepsRecord(conns, c) ==
  [table |-> conns, ret |-> c \in DOMAIN conns]

\* LightweightServer.closeConnection: the table afterwards and the result
CloseConnection(conns, c) ==
  IF c \notin DOMAIN conns THEN [table |-> conns, ret |-> FALSE]
  ELSE [table |-> Delete(conns, c), ret |-> TRUE]

\* `method`, `url` and `bodyLength` are what handleRequest has read of the
\* request, `serviceName` and `isMsg` the locals of these names; all but
\* the method are held until the request is handed on or turned away
IdleReq ==
  [pc |-> "idle", connId |-> 0, pending |-> NoBeh, method |-> "none", url |-> <<>>,
   bodyLength |-> 0, serviceName |-> NoServiceName, isMsg |-> FALSE]

\* the continuation handed to onConnect and onDisconnect hooks does nothing
ConnHookBehaviours == {b \in HookBehaviours : ~b.calls}

\* a synchronous throw inside an async function rejects its promise
AsRejection(b) == IF b.how = "throwSync" THEN [b EXCEPT !.how = "reject"] ELSE b

Resolved == [calls |-> FALSE, how |-> "resolve", val |-> 0, err |-> NoThrow]

\* the catch block of handleRequest: error.message of null or undefined
\* raises a TypeError inside the catch block and nothing is written
RequestCatch(r, e) ==
  LET r1 == [r EXCEPT !.pending = NoBeh, !.url = <<>>, !.bodyLength = 0,
                      !.serviceName = NoServiceName, !.isMsg = FALSE]
  IN IF e.kind = "null" THEN [r1 EXCEPT !.pc = "rejected"] ELSE [r1 EXCEPT !.pc = "done"]

RequestCatchResponse(h, e) ==
  IF e.kind = "null" THEN h
  ELSE SendError(h, 500, IF e.message = "" THEN "Internal server error" ELSE e.message)

\* from the entry of handleRequest to the await of readRequestBody
HandleRequestStart ==
  /\ request.pc \in {"idle", "done", "rejected"}
  /\ request.connId < MaxRequests
  /\ \E method \in Methods :
       LET r == [IdleReq EXCEPT !.connId = request.connId + 1, !.method = method] IN
       IF method = "OPTIONS"
       THEN /\ request' = [r EXCEPT !.pc = "done"]
            /\ http' = WriteResponse(IdleHttp, 200, NoBody)
       ELSE IF method # "POST"
       THEN /\ request' = [r EXCEPT !.pc = "done"]
            /\ http' = SendError(IdleHttp, 405, "Method not allowed")
       ELSE /\ request' = [r EXCEPT !.pc = "awaitBody"]
            /\ http' = IdleHttp
  /\ call' = IdleCall
  /\ msgCall' = IdleMsgCall
  /\ UNCHANGED <<regVars, apiHandlers, msgHandlers, flows, connections, send, call2, codec, standalone, disconnected, lifecycle>>

\* LightweightServer.onConnect up to the await of the hook
OnConnect(r, fl, pb) ==
  [r EXCEPT !.pc = "awaitOnConnect",
            !.pending = IF fl["onConnect"] # Unbound THEN AsRejection(pb) ELSE Resolved]

\* the body has been read: the checks, the connection object, onConnect
HandleRequestBody ==
  /\ request.pc = "awaitBody"
  /\ \E read \in {"error", "end"}, length \in BodyLengths, url \in Urls :
       LET parsed == ParseUrlPath(url)
           r == [request EXCEPT !.bodyLength = length, !.url = url,
                                !.serviceName = parsed.serviceName, !.isMsg = parsed.isMsg]
       IN
       IF read = "error"
       THEN /\ request' = RequestCatch(request, PlainError("aborted"))
            /\ http' = RequestCatchResponse(http, PlainError("aborted"))
            /\ UNCHANGED connections
       ELSE IF length > MaxBodySize
       THEN /\ request' = [request EXCEPT !.pc = "done", !.bodyLength = length]
            /\ http' = SendError(http, 413, "Request body too large")
            /\ UNCHANGED connections
       ELSE IF parsed.serviceName = NoServiceName
       THEN /\ request' = [r EXCEPT !.pc = "done"]
            /\ http' = SendError(http, 400, "Invalid API path")
            /\ UNCHANGED connections
       ELSE /\ connections' = Put(connections, request.connId, NewConnection(request.connId))
            /\ \E pb \in Pick(flows["onConnect"] # Unbound, ConnHookBehaviours) :
                 request' = OnConnect(r, flows, pb)
            /\ UNCHANGED http
  /\ UNCHANGED <<regVars, apiHandlers, msgHandlers, flows, call, msgCall, send, call2, codec, standalone, disconnected, lifecycle>>

\* the awaited onConnect has settled: a rejection goes to the catch block,
\* otherwise the request is handed to handleJsonRequest or handleBinaryRequest
HandleRequestConnected ==
  /\ request.pc = "awaitOnConnect"
  /\ Settled(request.pending)
  /\ IF request.pending.how = "reject"
     THEN /\ request' = RequestCatch(request, request.pending.err)
          /\ http' = RequestCatchResponse(http, request.pending.err)
          /\ UNCHANGED <<call, msgCall>>
     ELSE /\ request' = [request EXCEPT !.pc = "handling", !.pending = NoBeh,
                                       !.url = <<>>, !.bodyLength = 0,
                                       !.serviceName = NoServiceName, !.isMsg = FALSE]
          /\ \E isJson \in BOOLEAN :
               IF isJson
               THEN HandleJsonRequestFor({request.serviceName}, {request.isMsg})
               ELSE HandleBinaryRequestEntry
  /\ UNCHANGED <<regVars, apiHandlers, msgHandlers, flows, connections, send, call2, codec, standalone, disconnected, lifecycle>>

\* LightweightServer.onDisconnect up to the await of the hook: the record is
\* deleted before the hook is invoked
OnDisconnect(r, conns, fl, pb) ==
  IF r.connId \notin DOMAIN conns THEN [r EXCEPT !.pc = "done"]
  ELSE [r EXCEPT !.pc = "awaitOnDisconnect",
                 !.pending = IF fl["onDisconnect"] # Unbound THEN AsRejection(pb)
                             ELSE Resolved]

\* the awaited handleJsonRequest or handleBinaryRequest has settled: an
\* exception that left it goes to the catch block and onDisconnect is not
\* reached
HandleRequestHandled ==
  /\ request.pc = "handling"
  /\ http.pc \in {"done", "failed"}
  /\ IF http.pc = "failed"
     THEN /\ request' = RequestCatch(request, PlainError("Cannot read properties of null"))
          /\ http' = RequestCatchResponse(http, PlainError("Cannot read properties of null"))
          /\ UNCHANGED <<connections, disconnected>>
     ELSE /\ \E pb \in Pick(flows["onDisconnect"] # Unbound
                              /\ request.connId \in DOMAIN connections, ConnHookBehaviours) :
               request' = OnDisconnect(request, connections, flows, pb)
          /\ connections' = Delete(connections, request.connId)
          /\ disconnected' =
               IF flows["onDisconnect"] # Unbound /\ request.connId \in DOMAIN connections
               THEN [disconnected EXCEPT !.hook[request.connId] = @ + 1]
               ELSE disconnected
          /\ UNCHANGED http
  /\ UNCHANGED <<regVars, apiHandlers, msgHandlers, flows, call, msgCall, send, call2, codec, standalone, lifecycle>>

\* the awaited onDisconnect has settled
HandleRequestDisconnected ==
  /\ request.pc = "awaitOnDisconnect"
  /\ Settled(request.pending)
  /\ IF request.pending.how = "reject"
     THEN /\ request' = RequestCatch(request, request.pending.err)
          /\ http' = RequestCatchResponse(http, request.pending.err)
     ELSE /\ request' = [request EXCEPT !.pc = "done", !.pending = NoBeh]
          /\ UNCHANGED http
  /\ UNCHANGED <<regVars, apiHandlers, msgHandlers, flows, connections, call, msgCall, send, call2, codec, standalone, disconnected, lifecycle>>

SetFlowsConnStep ==
  \E ps \in {q \in SUBSET {"onConnect", "onDisconnect"} : Cardinality(q) <= MaxFlowsPerCall} :
    \E partial \in [ps -> HookIds \cup {Unbound}] : setFlows(partial)

(***************************************************************************)
(* LightweightServer.sendMsg and broadcastMsg                              *)
(***************************************************************************)
\* what sendMsg returns: errMsg is "" when the object has no such key
NoSendRet == [isSucc |-> FALSE, errMsg |-> "", returned |-> FALSE]
SendOk == [isSucc |-> TRUE, errMsg |-> "", returned |-> TRUE]
SendFail(m) == [isSucc |-> FALSE, errMsg |-> m, returned |-> TRUE]

\* one sendMsg invocation: `valid` is the verdict of validateMessage, `hook`
\* what the preMsgSend hook did, `serialized` whether serialize was called,
\* `handed` whether the serialized data was given to the connection, and
\* `collected` whether broadcastMsg has pushed its entry
NewSendMsg ==
  [pc |-> "running", valid |-> "none", hook |-> "none", pending |-> NoBeh,
   ret |-> NoSendRet, serialized |-> FALSE, handed |-> FALSE, collected |-> FALSE]

SendReturn(s, ret) == [s EXCEPT !.pc = "returned", !.ret = ret, !.pending = NoBeh]

\* the catch block of sendMsg: error.message of null or undefined raises a
\* TypeError inside the catch block, which rejects the promise of sendMsg
SendCatch(s, e) ==
  IF e.kind = "null" THEN [s EXCEPT !.pc = "rejected", !.pending = NoBeh]
  ELSE SendReturn(s, SendFail(IF e.message = "" THEN "Send message failed" ELSE e.message))

\* serialize and return: the call connection.sendData(serializedData) is
\* commented out in the source, nothing is handed to the connection
SendSerialize(s, ser) ==
  IF ser = "throws"
  THEN SendCatch([s EXCEPT !.serialized = TRUE], PlainError("Do not know how to serialize"))
  ELSE SendReturn([s EXCEPT !.serialized = TRUE], SendOk)

\* the awaited preMsgSend hook has settled
AfterPreMsgSend(s, ser) ==
  IF s.pending.how = "reject" THEN SendCatch(s, s.pending.err)
  ELSE IF ~s.pending.calls
  THEN SendReturn(s, SendFail("Message send canceled by preMsgSend flow"))
  ELSE SendSerialize(s, ser)

\* from the entry of sendMsg to its first await
SendMsgStart(conns, opts, pr, fl, connId, name, msg, ve, pb, ser) ==
  IF connId \notin DOMAIN conns
  THEN SendReturn(NewSendMsg, SendFail("Connection not found"))
  ELSE LET mv == ValidateMessage(opts, pr, name, msg)
           s1 == [NewSendMsg EXCEPT !.valid = mv]
       IN IF mv = "throw" THEN SendCatch(s1, ve)
          ELSE IF mv = "false" THEN SendReturn(s1, SendFail("Invalid message data"))
          ELSE IF fl["preMsgSend"] # Unbound
          THEN LET s2 == [s1 EXCEPT !.hook = Outcome(pb)] IN
               IF pb.how = "throwSync" THEN SendCatch(s2, pb.err)
               ELSE [s2 EXCEPT !.pc = "awaitPreMsgSend", !.pending = pb]
          ELSE SendSerialize(s1, ser)

\* `op` is the method called, `atCall` the ids in the connection table when
\* it was called, `sm` the sendMsg invocations by connection id, `results`
\* the list broadcastMsg builds and `ret` what it returns
NoBroadcastRet == [isSucc |-> FALSE, failedCount |-> 0]
IdleSend ==
  [pc |-> "idle", op |-> "none", atCall |-> {}, exclude |-> {}, sm |-> EmptyMap,
   results |-> <<>>, ret |-> NoBroadcastRet]

\* where a direct sendMsg call stands
DirectPc(s) == IF s.pc \in {"returned", "rejected"} THEN s.pc ELSE "awaitSends"

\* whether a preMsgSend hook called its continuation is read only after the
\* hook has resolved
SendHookBehaviours == {b \in HookBehaviours : b.how = "resolve" \/ ~b.calls}

\* the inputs one sendMsg invocation draws
SendInputs(valid, fl) ==
  [ve : (IF valid = "throw" THEN HookThrown ELSE {NoThrow}),
   pb : Pick(valid = "true" /\ fl["preMsgSend"] # Unbound, SendHookBehaviours),
   ser : (IF valid = "true" /\ fl["preMsgSend"] = Unbound THEN {"ok", "throws"} ELSE {"ok"})]

SendMsgCall ==
  /\ send.pc \in {"idle", "returned", "rejected"}
  /\ \E c \in ConnIds, n \in Names, d \in Data :
       \E in \in SendInputs(IF c \in DOMAIN connections
                            THEN ValidateMessage(options, protocol, n, d) ELSE "none", flows) :
         LET s == SendMsgStart(connections, options, protocol, flows, c, n, d,
                               in.ve, in.pb, in.ser)
         IN send' = [IdleSend EXCEPT !.op = "sendMsg", !.pc = DirectPc(s),
                                     !.atCall = DOMAIN connections, !.sm = Put(EmptyMap, c, s)]
  /\ UNCHANGED <<regVars, apiHandlers, msgHandlers, flows, connections, request, callVars, call2, codec, standalone, disconnected, lifecycle>>

\* Array.from(this.connections.entries()).filter(([connId]) => !excludeSet.has(connId))
BroadcastTargets(conns, exclude) == (DOMAIN conns) \ exclude

\* from the entry of broadcastMsg to await Promise.all: map starts one
\* sendMsg per target, each runs to its first await
BroadcastMsgCall ==
  /\ send.pc \in {"idle", "returned", "rejected"}
  /\ \E n \in Names, d \in Data, exclude \in SUBSET ConnIds :
       LET targets == BroadcastTargets(connections, exclude)
           mv == ValidateMessage(options, protocol, n, d)
       IN \E ins \in [targets -> SendInputs(mv, flows)] :
            send' = [IdleSend EXCEPT
                       !.op = "broadcastMsg", !.pc = "awaitSends",
                       !.atCall = DOMAIN connections, !.exclude = exclude,
                       !.sm = [c \in targets |->
                                 SendMsgStart(connections, options, protocol, flows, c, n, d,
                                              ins[c].ve, ins[c].pb, ins[c].ser)]]
  /\ UNCHANGED <<regVars, apiHandlers, msgHandlers, flows, connections, request, callVars, call2, codec, standalone, disconnected, lifecycle>>

\* sendMsg resumes after its awaited preMsgSend hook has settled
SendHookResume ==
  /\ \E c \in DOMAIN send.sm :
       /\ send.sm[c].pc = "awaitPreMsgSend"
       /\ Settled(send.sm[c].pending)
       /\ \E ser \in (IF send.sm[c].pending.how = "resolve" /\ send.sm[c].pending.calls
                      THEN {"ok", "throws"} ELSE {"ok"}) :
            LET s == AfterPreMsgSend(send.sm[c], ser) IN
            send' = [send EXCEPT !.sm[c] = s,
                                 !.pc = IF send.op = "sendMsg" THEN DirectPc(s) ELSE @]
  /\ UNCHANGED <<regVars, apiHandlers, msgHandlers, flows, connections, request, callVars, call2, codec, standalone, disconnected, lifecycle>>

\* the map callback of broadcastMsg resumes after its sendMsg has returned
\* and pushes one entry
BroadcastCollect ==
  /\ send.op = "broadcastMsg"
  /\ \E c \in DOMAIN send.sm :
       /\ send.sm[c].pc = "returned"
       /\ ~send.sm[c].collected
       /\ send' = [send EXCEPT
            !.sm[c].collected = TRUE,
            !.results = Append(@, [connId |-> c, success |-> send.sm[c].ret.isSucc,
                                   error |-> send.sm[c].ret.errMsg])]
  /\ UNCHANGED <<regVars, apiHandlers, msgHandlers, flows, connections, request, callVars, call2, codec, standalone, disconnected, lifecycle>>

\* Promise.all rejects as soon as one map callback has rejected
BroadcastReject ==
  /\ send.op = "broadcastMsg"
  /\ send.pc = "awaitSends"
  /\ \E c \in DOMAIN send.sm : send.sm[c].pc = "rejected"
  /\ send' = [send EXCEPT !.pc = "rejected"]
  /\ UNCHANGED <<regVars, apiHandlers, msgHandlers, flows, connections, request, callVars, call2, codec, standalone, disconnected, lifecycle>>

FailedCount(results) == Cardinality({i \in 1..Len(results) : ~results[i].success})

\* Promise.all resolves once every map callback has pushed its entry
BroadcastReturn ==
  /\ send.op = "broadcastMsg"
  /\ send.pc = "awaitSends"
  /\ \A c \in DOMAIN send.sm : send.sm[c].collected
  /\ send' = [send EXCEPT !.pc = "returned",
                          !.ret = [isSucc |-> FailedCount(send.results) = 0,
                                   failedCount |-> FailedCount(send.results)]]
  /\ UNCHANGED <<regVars, apiHandlers, msgHandlers, flows, connections, request, callVars, call2, codec, standalone, disconnected, lifecycle>>

\* a transport registers a connection: onConnect with no hook bound
OnConnectStep ==
  /\ flows["onConnect"] = Unbound
  /\ \E c \in ConnIds \ DOMAIN connections :
       connections' = Put(connections, c, NewConnection(c))
  /\ UNCHANGED <<regVars, apiHandlers, msgHandlers, flows, request, send, callVars, call2, codec, standalone, disconnected, lifecycle>>

\* closeConnection of a tracked connection; for an id that is not tracked it
\* returns false and changes nothing
CloseConnectionStep ==
  /\ \E c \in DOMAIN connections : connections' = CloseConnection(connections, c).table
  /\ UNCHANGED <<regVars, apiHandlers, msgHandlers, flows, request, send, callVars, call2, codec, standalone, disconnected, lifecycle>>

\* closeConnection of any id, tracked or not, while a request is served
closeConnection(c) ==
  LET closed == CloseConnection(connections, c) IN
  /\ connections' = closed.table
  /\ disconnected' = [disconnected EXCEPT
                        !.closed = IF closed.ret THEN @ \cup {c} ELSE @,
                        !.ret = IF closed.ret THEN "true" ELSE "false"]
  /\ UNCHANGED <<regVars, apiHandlers, msgHandlers, flows, request, send, callVars, call2, codec, standalone, lifecycle>>

CloseConnectionAnyStep == \E c \in ConnIds : closeConnection(c)

SetFlowsSendStep ==
  \E partial \in [{"preMsgSend"} -> HookIds \cup {Unbound}] : setFlows(partial)

(***************************************************************************)
(* Two handleApiCall invocations in flight                                 *)
(***************************************************************************)
\* each invocation of the async function handleApiCall has its own locals
\* and shares the tables of the server with the others; two calls are
\* followed, each made once
FirstCallStart ==
  /\ call.pc = "idle"
  /\ ApiCallStart

SecondCallStart ==
  /\ call2.pc = "idle"
  /\ \E n \in Names, d \in Data :
       LET qv == ValidateRequest(options, protocol, n, d)
           hooked == qv = "true" /\ flows["preApiCall"] # Unbound
           direct == qv = "true" /\ flows["preApiCall"] = Unbound /\ n \in DOMAIN apiHandlers
       IN \E ve \in (IF qv = "throw" THEN HookThrown ELSE {NoThrow}),
             pb \in Pick(hooked, HookBehaviours),
             hb \in Pick(direct, HandlerBehaviours) :
            call2' = HandleApiCallStart(NewCall(n, d), options, protocol, flows,
                                        apiHandlers, ve, pb, hb)
  /\ UNCHANGED <<regVars, apiHandlers, msgHandlers, flows, connections, request, send, callVars, codec, standalone, disconnected, lifecycle>>

SecondPreCallResume ==
  /\ call2.pc = "awaitPreApiCall"
  /\ Settled(call2.pending)
  /\ \E hb \in Pick(call2.pending.how = "resolve" /\ call2.pending.calls
                      /\ call2.name \in DOMAIN apiHandlers, HandlerBehaviours) :
       call2' = AfterPreApiCall(call2, apiHandlers, hb)
  /\ UNCHANGED <<regVars, apiHandlers, msgHandlers, flows, connections, request, send, callVars, codec, standalone, disconnected, lifecycle>>

\* no preApiReturn or postApiCall hook is bound where two calls are followed
SecondHandlerResume ==
  /\ call2.pc = "awaitHandler"
  /\ Settled(call2.pending)
  /\ flows["preApiReturn"] = Unbound
  /\ flows["postApiCall"] = Unbound
  /\ LET rv == IF call2.pending.how = "resolve"
               THEN ValidateResponse(options, protocol, call2.name, call2.pending.val)
               ELSE "none"
     IN \E ve \in (IF rv = "throw" THEN HookThrown ELSE {NoThrow}) :
          call2' = AfterHandler(call2, options, protocol, flows, ve, NoBeh, NoBeh)
  /\ UNCHANGED <<regVars, apiHandlers, msgHandlers, flows, connections, request, send, callVars, codec, standalone, disconnected, lifecycle>>

SetFlowsPreCallStep ==
  \E partial \in [{"preApiCall"} -> HookIds \cup {Unbound}] : setFlows(partial)

(***************************************************************************)
(* StandaloneHttpServer.handleApiCall                                      *)
(***************************************************************************)
\* thrown values: a plain Error, a StandaloneError and null/undefined
StandaloneThrown ==
  {PlainError("boom"), PlainError(""), NullThrown,
   [kind |-> "StandaloneError", message |-> "denied", code |-> "E_DENIED", type |-> "ClientError"]}

\* what a StandaloneMiddleware does when invoked
StandaloneHookBehaviours ==
  {[calls |-> c, how |-> h, val |-> 0, err |-> NoThrow] :
      c \in BOOLEAN, h \in {"resolve", "hang"}}
  \cup {[calls |-> c, how |-> h, val |-> 0, err |-> e] :
      c \in BOOLEAN, h \in {"throwSync", "reject"}, e \in StandaloneThrown}

\* what a StandaloneApiHandler does when invoked
StandaloneHandlerBehaviours ==
  {[calls |-> FALSE, how |-> "resolve", val |-> d, err |-> NoThrow] : d \in Data}
  \cup {[calls |-> FALSE, how |-> "hang", val |-> 0, err |-> NoThrow]}
  \cup {[calls |-> FALSE, how |-> h, val |-> 0, err |-> e] :
      h \in {"throwSync", "reject"}, e \in StandaloneThrown}

StandaloneFlowPoints == {"preApiCall", "postApiCall"}

\* one invocation of handleApiCall: `shouldContinue` is its local of that
\* name, `nextCalled` the local of executeMiddleware, `invoked` the number of
\* times the handler was invoked, `preCalls` whether the preApiCall hook
\* called its continuation, `preOut` and `postOut` how the hooks ended
IdleStandaloneCall ==
  [pc |-> "idle", name |-> NamePool[1], shouldContinue |-> FALSE, nextCalled |-> FALSE,
   preCalls |-> "none", preOut |-> "none", invoked |-> 0, pending |-> NoBeh, result |-> <<>>,
   postOut |-> "none", caught |-> NoThrow, ret |-> NoEnvelope]

\* the server after construction: apiHandlers is a Map, flows is {}
NewStandalone ==
  [apiHandlers |-> {}, flows |-> [p \in StandaloneFlowPoints |-> Unbound],
   k |-> IdleStandaloneCall]

StandaloneReturn(k, env) == [k EXCEPT !.pc = "returned", !.ret = env, !.pending = NoBeh]

\* the catch block of handleApiCall: error.message of null or undefined
\* raises a TypeError inside the catch block. The default message stands for
\* the one of the source
StandaloneCatch(k, e) ==
  IF e.kind = "null"
  THEN [k EXCEPT !.pc = "rejected", !.caught = e, !.pending = NoBeh]
  ELSE IF e.kind = "StandaloneError"
  THEN StandaloneReturn([k EXCEPT !.caught = e], Failure(e.message, e.code, e.type))
  ELSE StandaloneReturn([k EXCEPT !.caught = e],
         Failure(IF e.message = "" THEN "Internal server error" ELSE e.message,
                 "INTERNAL_ERROR", "ServerError"))

\* executeMiddleware up to the await of the middleware: nextFn sets
\* nextCalled and calls `next` when one was passed
ExecuteMiddlewareStart(k, b, hasNext) ==
  [k EXCEPT !.pending = AsRejection(b), !.nextCalled = b.calls,
            !.shouldContinue = @ \/ (b.calls /\ hasNext)]

\* executeMiddleware after the middleware has resolved: when the middleware
\* did not call nextFn, `next` is called for it
ExecuteMiddlewareEnd(k, hasNext) ==
  IF ~k.nextCalled /\ hasNext THEN [k EXCEPT !.shouldContinue = TRUE] ELSE k

\* this.apiHandlers.get(apiName) and the invocation of the handler
StandaloneInvokeHandler(k, handlers, hb) ==
  IF k.name \notin handlers
  THEN StandaloneReturn(k, Failure("API handler not found", "HANDLER_NOT_FOUND", "ServerError"))
  ELSE [k EXCEPT !.pc = "awaitHandler", !.invoked = @ + 1, !.pending = AsRejection(hb)]

\* what the caller of a hook observes of the way it ended
HookOutcome(b) ==
  IF b.how = "hang" THEN "hung" ELSE IF b.how = "resolve" THEN "resolved" ELSE "threw"

\* from the entry of handleApiCall to its first await
StandaloneApiCallEntry(k, fl, handlers, pb, hb) ==
  IF fl["preApiCall"] # Unbound
  THEN [ExecuteMiddlewareStart(k, pb, TRUE) EXCEPT
          !.pc = "awaitPreApiCall", !.preCalls = IF pb.calls THEN "called" ELSE "skipped",
          !.preOut = HookOutcome(pb)]
  ELSE StandaloneInvokeHandler(k, handlers, hb)

\* the awaited executeMiddleware(preApiCall) has settled
StandaloneAfterPreApiCall(k, handlers, hb) ==
  IF k.pending.how = "reject" THEN StandaloneCatch(k, k.pending.err)
  ELSE LET k1 == ExecuteMiddlewareEnd(k, TRUE) IN
       IF ~k1.shouldContinue
       THEN StandaloneReturn(k1, Failure("Request rejected by middleware",
                                         "MIDDLEWARE_REJECTED", "ServerError"))
       ELSE StandaloneInvokeHandler(k1, handlers, hb)

\* the awaited handler has settled: the postApiCall hook is awaited inside
\* the try block
StandaloneAfterHandler(k, fl, qb) ==
  IF k.pending.how = "reject" THEN StandaloneCatch(k, k.pending.err)
  ELSE LET k1 == [k EXCEPT !.result = <<k.pending.val>>] IN
       IF fl["postApiCall"] # Unbound
       THEN [ExecuteMiddlewareStart(k1, qb, FALSE) EXCEPT
               !.pc = "awaitPostApiCall",
               !.postOut = HookOutcome(qb)]
       ELSE StandaloneReturn(k1, Success(k1.result))

\* the awaited executeMiddleware(postApiCall) has settled
StandaloneAfterPostApiCall(k) ==
  IF k.pending.how = "reject" THEN StandaloneCatch(k, k.pending.err)
  ELSE StandaloneReturn(ExecuteMiddlewareEnd(k, FALSE), Success(k.result))

StandaloneImplementApi ==
  /\ \E n \in Names :
       standalone' = [standalone EXCEPT !.apiHandlers = @ \cup {n}]
  /\ UNCHANGED <<regVars, apiHandlers, msgHandlers, flows, connections, request, send, callVars, call2, codec, disconnected, lifecycle>>

StandaloneSetFlows ==
  /\ \E ps \in SUBSET StandaloneFlowPoints :
       \E partial \in [ps -> HookIds \cup {Unbound}] :
          standalone' = [standalone EXCEPT
                           !.flows = [p \in StandaloneFlowPoints |->
                                        IF p \in ps THEN partial[p] ELSE @[p]]]
  /\ UNCHANGED <<regVars, apiHandlers, msgHandlers, flows, connections, request, send, callVars, call2, codec, disconnected, lifecycle>>

StandaloneApiCallStart ==
  /\ standalone.k.pc \in {"idle", "returned", "rejected"}
  /\ \E n \in Names :
       LET hooked == standalone.flows["preApiCall"] # Unbound
           direct == ~hooked /\ n \in standalone.apiHandlers
       IN \E pb \in Pick(hooked, StandaloneHookBehaviours),
             hb \in Pick(direct, StandaloneHandlerBehaviours) :
            standalone' = [standalone EXCEPT
                             !.k = StandaloneApiCallEntry(
                                     [IdleStandaloneCall EXCEPT !.pc = "running", !.name = n],
                                     standalone.flows, standalone.apiHandlers, pb, hb)]
  /\ UNCHANGED <<regVars, apiHandlers, msgHandlers, flows, connections, request, send, callVars, call2, codec, disconnected, lifecycle>>

StandalonePreApiCallResume ==
  /\ standalone.k.pc = "awaitPreApiCall"
  /\ Settled(standalone.k.pending)
  /\ LET k1 == ExecuteMiddlewareEnd(standalone.k, TRUE)
         direct == standalone.k.pending.how = "resolve" /\ k1.shouldContinue
                   /\ standalone.k.name \in standalone.apiHandlers
     IN \E hb \in Pick(direct, StandaloneHandlerBehaviours) :
          standalone' = [standalone EXCEPT
                           !.k = StandaloneAfterPreApiCall(standalone.k,
                                                           standalone.apiHandlers, hb)]
  /\ UNCHANGED <<regVars, apiHandlers, msgHandlers, flows, connections, request, send, callVars, call2, codec, disconnected, lifecycle>>

StandaloneHandlerResume ==
  /\ standalone.k.pc = "awaitHandler"
  /\ Settled(standalone.k.pending)
  /\ LET hooked == standalone.k.pending.how = "resolve"
                   /\ standalone.flows["postApiCall"] # Unbound
     IN \E qb \in Pick(hooked, StandaloneHookBehaviours) :
          standalone' = [standalone EXCEPT
                           !.k = StandaloneAfterHandler(standalone.k, standalone.flows, qb)]
  /\ UNCHANGED <<regVars, apiHandlers, msgHandlers, flows, connections, request, send, callVars, call2, codec, disconnected, lifecycle>>

StandalonePostApiCallResume ==
  /\ standalone.k.pc = "awaitPostApiCall"
  /\ Settled(standalone.k.pending)
  /\ standalone' = [standalone EXCEPT !.k = StandaloneAfterPostApiCall(standalone.k)]
  /\ UNCHANGED <<regVars, apiHandlers, msgHandlers, flows, connections, request, send, callVars, call2, codec, disconnected, lifecycle>>

Init ==
  /\ options \in OptionChoices
  /\ serviceMap = NewServiceMap
  /\ protocol = NewProtocol
  /\ lastRet = Undefined
  /\ registered = {}
  /\ apiHandlers = EmptyMap
  /\ flows = NewFlows
  /\ msgHandlers = EmptyMap
  /\ connections = EmptyMap
  /\ call = IdleCall
  /\ msgCall = IdleMsgCall
  /\ http = IdleHttp
  /\ request = IdleReq
  /\ lifecycle = NewLifecycle
  /\ disconnected = NoDisconnects
  /\ standalone = NewStandalone
  /\ codec = IdleCodec
  /\ call2 = IdleCall
  /\ send = IdleSend

RegisterApiStep ==
  /\ \E n \in Names, v \in ApiValidatorArgs : registerApi(n, v)
  /\ UNCHANGED <<srvVars, callVars>>
RegisterMsgStep ==
  /\ \E n \in Names, v \in MsgValidatorArgs : registerMsg(n, v)
  /\ UNCHANGED <<srvVars, callVars>>
GetServiceIdStep ==
  /\ \E n \in Names, k \in Kinds : getServiceId(n, k)
  /\ UNCHANGED <<srvVars, callVars>>
ResetStep ==
  /\ reset
  /\ UNCHANGED <<srvVars, callVars>>

ValidateRequestStep ==
  /\ \E n \in Names, d \in Data : validateRequest(n, d)
  /\ UNCHANGED <<srvVars, callVars>>
ValidateResponseStep ==
  /\ \E n \in Names, d \in Data : validateResponse(n, d)
  /\ UNCHANGED <<srvVars, callVars>>
ValidateMessageStep ==
  /\ \E n \in Names, d \in Data : validateMessage(n, d)
  /\ UNCHANGED <<srvVars, callVars>>

\* a generator constructed with any combination of the options
InitValidation ==
  /\ options \in AllOptionChoices
  /\ serviceMap = NewServiceMap
  /\ protocol = NewProtocol
  /\ lastRet = Undefined
  /\ registered = {}
  /\ apiHandlers = EmptyMap
  /\ flows = NewFlows
  /\ msgHandlers = EmptyMap
  /\ connections = EmptyMap
  /\ call = IdleCall
  /\ msgCall = IdleMsgCall
  /\ http = IdleHttp
  /\ request = IdleReq
  /\ lifecycle = NewLifecycle
  /\ disconnected = NoDisconnects
  /\ standalone = NewStandalone
  /\ codec = IdleCodec
  /\ call2 = IdleCall
  /\ send = IdleSend

NextValidation ==
  \/ RegisterApiStep
  \/ RegisterMsgStep
  \/ ValidateRequestStep
  \/ ValidateResponseStep
  \/ ValidateMessageStep

SpecValidation == InitValidation /\ [][NextValidation]_vars

NextRegistry ==
  \/ RegisterApiStep
  \/ RegisterMsgStep
  \/ GetServiceIdStep
  \/ ResetStep

Next ==
  \/ ImplementApiStep
  \/ SetFlowsApiStep
  \/ ApiCallStart
  \/ ApiPreCallResume
  \/ ApiHandlerResume
  \/ ApiPreReturnResume
  \/ PostApiCallSettle

Spec == Init /\ [][Next]_vars

NextMsg ==
  \/ ListenMsgStep
  \/ RegisterMsgStep
  \/ SetFlowsMsgStep
  \/ MsgCallStart
  \/ MsgPreReceiveResume
  \/ MsgHandlerSettle
  \/ MsgCallComplete

SpecMsg == Init /\ [][NextMsg]_vars

\* the points the arguments of setFlows are drawn from
FlowPointPool ==
  <<"preApiCall", "preApiReturn", "postApiCall", "preMsgReceive", "onConnect",
    "onDisconnect", "preMsgSend", "preReceiveData", "preSendData">>
MentionedPoints == {FlowPointPool[i] : i \in 1..MaxFlowPoints} \cap FlowPoints

\* the arguments of setFlows: objects that mention some of the points; a
\* point can be mentioned with the value undefined
FlowArgs ==
  UNION {[ps -> AllHookIds \cup {Unbound}] :
           ps \in {q \in SUBSET MentionedPoints : Cardinality(q) <= MaxFlowsPerCall}}

SetFlowsAnyStep == \E partial \in FlowArgs : setFlows(partial)

\* a server on which only hooks are bound and rebound
NextFlows == SetFlowsAnyStep

SpecFlows == Init /\ [][NextFlows]_vars

\* a server that answers JSON requests over HTTP
NextHttp ==
  \/ ListenMsgStep
  \/ RegisterMsgStep
  \/ SetFlowsMsgStep
  \/ HttpJsonRequest
  \/ MsgPreReceiveResume
  \/ MsgHandlerSettle
  \/ MsgCallComplete
  \/ HttpMsgRespond
  \/ HttpApiRespond

SpecHttp == Init /\ [][NextHttp]_vars

\* a server without hooks whose handlers are bound and rebound while it
\* answers requests
NextDispatch ==
  \/ ImplementApiAnyStep
  \/ ListenMsgStep
  \/ HttpJsonRequest
  \/ ApiHandlerResume
  \/ MsgHandlerSettle
  \/ MsgCallComplete
  \/ HttpMsgRespond
  \/ HttpApiRespond

SpecDispatch == Init /\ [][NextDispatch]_vars

SpecRegistry == Init /\ [][NextRegistry]_vars

\* an HTTP server with connection hooks that answers one request at a time
NextConn ==
  \/ ImplementApiStep
  \/ SetFlowsConnStep
  \/ HandleRequestStart
  \/ HandleRequestBody
  \/ HandleRequestConnected
  \/ ApiHandlerResume
  \/ HttpApiRespond
  \/ HttpMsgRespond
  \/ HttpBinaryApiRespond
  \/ HttpBinaryMsgRespond
  \/ HandleRequestHandled
  \/ HandleRequestDisconnected

SpecConn == Init /\ [][NextConn]_vars

\* the same server under the scheduling of the event loop: the continuation
\* of an await runs once the awaited promise has settled
SpecConnFair ==
  /\ Init
  /\ [][NextConn]_vars
  /\ WF_vars(HandleRequestConnected)
  /\ WF_vars(ApiHandlerResume)
  /\ WF_vars(HttpApiRespond)
  /\ WF_vars(HttpMsgRespond)
  /\ WF_vars(HttpBinaryApiRespond)
  /\ WF_vars(HttpBinaryMsgRespond)
  /\ WF_vars(HandleRequestHandled)
  /\ WF_vars(HandleRequestDisconnected)

\* the same server, with no handler implemented, while closeConnection is
\* called between the steps of the requests
NextClose ==
  \/ SetFlowsConnStep
  \/ HandleRequestStart
  \/ HandleRequestBody
  \/ HandleRequestConnected
  \/ HttpApiRespond
  \/ HttpMsgRespond
  \/ HttpBinaryApiRespond
  \/ HttpBinaryMsgRespond
  \/ HandleRequestHandled
  \/ HandleRequestDisconnected
  \/ CloseConnectionAnyStep

SpecClose == Init /\ [][NextClose]_vars

\* a registry that fills while binary requests are handled
NextBinary ==
  \/ RegisterApiStep
  \/ RegisterMsgStep
  \/ HttpBinaryRequest
  \/ HttpBinaryApiRespond
  \/ HttpBinaryMsgRespond

SpecBinary == Init /\ [][NextBinary]_vars

\* a server that is configured, started and stopped
NextLifecycle ==
  \/ SetFlowsConnStep
  \/ start
  \/ Listening
  \/ ListenError
  \/ stop
  \/ Closed

SpecLifecycle == Init /\ [][NextLifecycle]_vars

\* a server that sends and broadcasts messages while connections come and go
NextSend ==
  \/ RegisterMsgStep
  \/ SetFlowsSendStep
  \/ OnConnectStep
  \/ CloseConnectionStep
  \/ SendMsgCall
  \/ BroadcastMsgCall
  \/ SendHookResume
  \/ BroadcastCollect
  \/ BroadcastReject
  \/ BroadcastReturn

SpecSend == Init /\ [][NextSend]_vars

\* values are serialized and the results deserialized
NextCodec ==
  \/ serialize
  \/ deserialize

SpecCodec == Init /\ [][NextCodec]_vars

\* the standalone server: handlers, hooks and its API calls
NextStandalone ==
  \/ StandaloneImplementApi
  \/ StandaloneSetFlows
  \/ StandaloneApiCallStart
  \/ StandalonePreApiCallResume
  \/ StandaloneHandlerResume
  \/ StandalonePostApiCallResume

SpecStandalone == Init /\ [][NextStandalone]_vars

\* a server with two API calls in flight
NextTwoCalls ==
  \/ ImplementApiStep
  \/ SetFlowsPreCallStep
  \/ FirstCallStart
  \/ ApiPreCallResume
  \/ ApiHandlerResume
  \/ SecondCallStart
  \/ SecondPreCallResume
  \/ SecondHandlerResume

\* the continuation of an await runs once the awaited promise has settled:
\* the event loop does not starve a ready continuation
SpecTwoCalls ==
  /\ Init
  /\ [][NextTwoCalls]_vars
  /\ WF_vars(ApiPreCallResume)
  /\ WF_vars(ApiHandlerResume)
  /\ WF_vars(SecondPreCallResume)
  /\ WF_vars(SecondHandlerResume)

(***************************************************************************)
(* Properties                                                              *)
(***************************************************************************)
Terminal == {"returned", "rejected"}

\* the request validator validateRequest resolves for a name
ReqValidatorFor(name) ==
  IF ExplicitApiValidator(protocol, name, "req") # NoValidator
  THEN ExplicitApiValidator(protocol, name, "req")
  ELSE CustomApiValidator(options, name, "req")

\* C1: with validation enabled, a call whose applicable request validator
\* returns false for the request returns INVALID_REQUEST / ClientError and
\* invokes neither the handler nor any of the three API hooks.
C1_ValidationGate ==
  (/\ call.pc # "idle"
   /\ options.enableValidation
   /\ ReqValidatorFor(call.name) # NoValidator
   /\ ValidatorResult(ReqValidatorFor(call.name), call.req) = "false")
  => /\ call.pc = "returned"
     /\ ~call.ret.isSucc
     /\ call.ret.err.code = "INVALID_REQUEST"
     /\ call.ret.err.type = "ClientError"
     /\ call.trace = <<>>

\* a rejected request although a preApiCall hook and a handler are bound
C1_Witness ==
  /\ call.pc = "returned"
  /\ call.reqValid = "false"
  /\ call.ret.err.code = "INVALID_REQUEST"
  /\ flows["preApiCall"] # Unbound
  /\ call.name \in DOMAIN apiHandlers

\* C2: a bound preApiCall hook that resolves without having called its
\* continuation makes the call return FLOW_CANCELED / ServerError, and the
\* handler is not invoked.
C2_PreCallRejection ==
  (call.pc \in Terminal /\ call.preOut = "skipped")
  => /\ call.pc = "returned"
     /\ ~call.ret.isSucc
     /\ call.ret.err.code = "FLOW_CANCELED"
     /\ call.ret.err.type = "ServerError"
     /\ ~Includes(call.trace, "handler")

\* the hook has cancelled a call to an API whose handler is bound
C2_Witness ==
  /\ call.pc = "returned"
  /\ call.preOut = "skipped"
  /\ call.trace = <<"preApiCall">>
  /\ call.name \in DOMAIN apiHandlers
  /\ call.ret.err.code = "FLOW_CANCELED"

\* C3: handleApiCall never rejects: whatever the validators, hooks and
\* handler do, the call does not end by throwing to its caller.
C3_NeverRejects == call.pc # "rejected"

\* C4: once the postApiCall hook has been started (the handler returned, the
\* response passed validation and the preApiReturn hook), the call returns
\* the success envelope with the handler's result, whatever the hook does.
C4_PostFlowDetached ==
  (call.pc \in Terminal /\ Includes(call.trace, "postApiCall"))
  => (call.pc = "returned" /\ call.ret = Success(call.result))

\* C5 as claimed: a call to a name with no handler bound returns
\* HANDLER_NOT_FOUND / ServerError and invokes no hook and no handler.
C5_UnboundNoSideEffect ==
  (call.pc \in Terminal /\ call.name \notin DOMAIN apiHandlers)
  => /\ call.pc = "returned"
     /\ call.ret.err.code = "HANDLER_NOT_FOUND"
     /\ call.ret.err.type = "ServerError"
     /\ call.trace = <<>>

\* C5 amended: a step of a call to a name with no handler bound changes
\* none of the tables, invokes nothing but the preApiCall hook, and returns
\* HANDLER_NOT_FOUND / ServerError when the request passed validation and
\* the preApiCall hook, if bound, returned having called its continuation.
C5_UnboundAfterPreFlow ==
  [][(call' # call) =>
       /\ UNCHANGED <<serviceMap, protocol, apiHandlers, msgHandlers, flows, connections>>
       /\ (call'.pc # "idle" /\ call'.name \notin DOMAIN apiHandlers')
          => /\ \A i \in 1..Len(call'.trace) : call'.trace[i] = "preApiCall"
             /\ (/\ call'.reqValid = "true"
                 /\ call'.pc # "awaitPreApiCall"
                 /\ call'.preOut \in {"none", "continued"})
                => /\ call'.pc = "returned"
                   /\ ~call'.ret.isSucc
                   /\ call'.ret.err.code = "HANDLER_NOT_FOUND"
                   /\ call'.ret.err.type = "ServerError"]_vars

\* HANDLER_NOT_FOUND returned after the preApiCall hook has run and continued
C5_Witness ==
  /\ call.pc = "returned"
  /\ call.name \notin DOMAIN apiHandlers
  /\ call.trace = <<"preApiCall">>
  /\ call.preOut = "continued"
  /\ call.ret.err.code = "HANDLER_NOT_FOUND"

\* C6: when a message is fanned out to two or more handlers, handleMsgCall
\* completes only after every bound handler has been invoked and has settled.
C6_FanOutIsolation ==
  (msgCall.pc = "completed" /\ Len(msgCall.hs) >= 2)
  => \A i \in 1..Len(msgCall.hs) : msgCall.hs[i] \in {"fulfilled", "rejected", "threw"}

\* C7: registering a name again returns the id it has and changes nothing,
\* and nextId counts the distinct (namespace, name) pairs registered.
C7_IdempotentRegistration ==
  /\ \A n \in Names :
       /\ <<"api", n>> \in registered
          => /\ RegisterApiRet(serviceMap, n) = GetServiceId(serviceMap, n, "api")
             /\ RegisterApiMap(serviceMap, n) = serviceMap
       /\ <<"msg", n>> \in registered
          => /\ RegisterMsgRet(serviceMap, n) = GetServiceId(serviceMap, n, "msg")
             /\ RegisterMsgMap(serviceMap, n) = serviceMap
  /\ serviceMap.nextId = Cardinality(registered)

C9_NamespacesIndependent ==
  /\ \A n \in Names :
       (<<"api", n>> \in registered /\ <<"msg", n>> \in registered)
       => /\ GetServiceId(serviceMap, n, "api").t = "number"
          /\ GetServiceId(serviceMap, n, "msg").t = "number"
          /\ GetServiceId(serviceMap, n, "api") # GetServiceId(serviceMap, n, "msg")
  /\ (DOMAIN serviceMap.id2ApiName) \cap (DOMAIN serviceMap.id2MsgName) = {}

\* C10: every call that has ended returned one envelope whose keys are
\* fixed by isSucc: isSucc and res, or isSucc and err.
C10_EnvelopeShape ==
  call.pc \in Terminal
  => \/ (call.ret.isSucc /\ call.ret.fields = {"isSucc", "res"})
     \/ (~call.ret.isSucc /\ call.ret.fields = {"isSucc", "err"})

\* the handler of the call threw, or its promise rejected, and the thrown
\* value has been caught
HandlerThrewCaught ==
  /\ call.handlerOut = "threw"
  /\ call.pc # "awaitHandler"

\* C11 as claimed: a handler exception without structured code/type yields
\* the failure envelope INTERNAL_ERROR / ServerError whose message is the
\* exception's message, for every message string.
C11_MessagePreserved ==
  (HandlerThrewCaught /\ call.caught.kind = "Error")
  => /\ call.pc = "returned"
     /\ call.ret = Failure(call.caught.message, "INTERNAL_ERROR", "ServerError")

\* C11 amended: the envelope is INTERNAL_ERROR / ServerError and its message
\* is the exception's message when that is not empty, and the fixed text
\* "Internal server error" when it is empty.
C11_MessageOrDefault ==
  (HandlerThrewCaught /\ call.caught.kind = "Error")
  => /\ call.pc = "returned"
     /\ call.ret.fields = {"isSucc", "err"}
     /\ ~call.ret.isSucc
     /\ call.ret.err.code = "INTERNAL_ERROR"
     /\ call.ret.err.type = "ServerError"
     /\ call.caught.message # "" => call.ret.err.message = call.caught.message
     /\ call.caught.message = "" => call.ret.err.message = "Internal server error"

\* a handler has thrown an Error whose message is empty
C11_Witness ==
  /\ call.pc = "returned"
  /\ call.handlerOut = "threw"
  /\ call.trace[Len(call.trace)] = "handler"
  /\ call.caught = PlainError("")
  /\ call.ret.err.message = "Internal server error"

\* C12: a handler exception that carries a structured code and type (a
\* LightweightError or any other thrown object with code and type fields)
\* yields the failure envelope with that message, code and type verbatim.
C12_StructuredVerbatim ==
  (HandlerThrewCaught /\ call.caught.kind \in {"LightweightError", "object"})
  => /\ call.pc = "returned"
     /\ call.ret = Failure(call.caught.message, call.caught.code, call.caught.type)

\* the response validator validateResponse resolves for a name
ResValidatorFor(name) ==
  IF ExplicitApiValidator(protocol, name, "res") # NoValidator
  THEN ExplicitApiValidator(protocol, name, "res")
  ELSE CustomApiValidator(options, name, "res")

\* how often a stage occurs in the trace of the call
Count(stage) == Cardinality({i \in 1..Len(call.trace) : call.trace[i] = stage})

\* C13: when the applicable response validator returns false for the value
\* the handler returned, the call returns INVALID_RESPONSE / ServerError,
\* the handler has been invoked exactly once, and neither the preApiReturn
\* nor the postApiCall hook is invoked.
C13_ResponseGate ==
  (/\ call.pc # "idle"
   /\ call.result # <<>>
   /\ options.enableValidation
   /\ ResValidatorFor(call.name) # NoValidator
   /\ ValidatorResult(ResValidatorFor(call.name), call.result[1]) = "false")
  => /\ call.pc = "returned"
     /\ ~call.ret.isSucc
     /\ call.ret.err.code = "INVALID_RESPONSE"
     /\ call.ret.err.type = "ServerError"
     /\ Count("handler") = 1
     /\ Count("preApiReturn") = 0
     /\ Count("postApiCall") = 0

\* a rejected response although both later hooks are bound
C13_Witness ==
  /\ call.pc = "returned"
  /\ call.resValid = "false"
  /\ call.result = <<1>>
  /\ call.ret.err.code = "INVALID_RESPONSE"
  /\ flows["preApiReturn"] # Unbound
  /\ flows["postApiCall"] # Unbound
  /\ call.trace = <<"handler">>

\* C14 as claimed: once the handler has returned a value that passed
\* response validation, a preApiReturn hook that returns without calling
\* its continuation does not change the result: the call returns the
\* success envelope with the handler's result.
C14_PreReturnAdvisory ==
  (call.pc \in Terminal /\ call.preRetOut = "skipped")
  => /\ call.pc = "returned"
     /\ call.ret = Success(call.result)

\* C14 amended: such a hook is binding: once it has returned, the call
\* returns FLOW_CANCELED / ServerError in place of the handler's result and
\* the postApiCall hook is not invoked; the handler has run once.
C14_PreReturnBinding ==
  (call.preRetOut = "skipped" /\ call.pc # "awaitPreApiReturn")
  => /\ call.pc = "returned"
     /\ call.ret = Failure("API return canceled by preApiReturn flow",
                           "FLOW_CANCELED", "ServerError")
     /\ call.resValid = "true"
     /\ Count("handler") = 1
     /\ Count("postApiCall") = 0

\* the hook has cancelled the return of a computed result although a
\* postApiCall hook is bound
C14_Witness ==
  /\ call.pc = "returned"
  /\ call.preRetOut = "skipped"
  /\ call.result = <<0>>
  /\ call.trace = <<"handler", "preApiReturn">>
  /\ call.ret.err.code = "FLOW_CANCELED"
  /\ flows["postApiCall"] # Unbound

\* the fallback order of the API validators, for one direction
ExpectedApiVerdict(name, data, dir) ==
  IF ~options.enableValidation THEN "true"
  ELSE IF name \in DOMAIN protocol.validators.api
          /\ protocol.validators.api[name][dir] # NoValidator
  THEN ValidatorResult(protocol.validators.api[name][dir], data)
  ELSE IF name \in DOMAIN options.customValidators
          /\ options.customValidators[name][dir] # NoValidator
  THEN ValidatorResult(options.customValidators[name][dir], data)
  ELSE "true"

\* C15: validateRequest (validateResponse) returns true when validation is
\* disabled; otherwise the result of the explicit validator stored for that
\* API and direction if there is one; otherwise the result of
\* customValidators[name].req (.res) if there is one; otherwise true. Each
\* direction is resolved from the validators of that direction only.
C15_FallbackOrder ==
  /\ (lastRet.t = "verdict" /\ lastRet.op = "validateRequest")
     => lastRet.r = ExpectedApiVerdict(lastRet.name, lastRet.data, "req")
  /\ (lastRet.t = "verdict" /\ lastRet.op = "validateResponse")
     => lastRet.r = ExpectedApiVerdict(lastRet.name, lastRet.data, "res")

\* the explicit request validator has decided although a custom request
\* validator exists for the name, and the response direction has no
\* explicit validator
C15_Witness ==
  /\ lastRet.t = "verdict"
  /\ lastRet.op = "validateRequest"
  /\ lastRet.r = "false"
  /\ lastRet.name \in DOMAIN protocol.validators.api
  /\ protocol.validators.api[lastRet.name] = [req |-> "isZero", res |-> NoValidator]
  /\ lastRet.name \in DOMAIN options.customValidators
  /\ options.customValidators[lastRet.name].req = "throws"

C17_MsgGate ==
  (/\ msgCall.pc # "idle"
   /\ \/ msgCall.msgValid = "false"
      \/ /\ msgCall.preOut \in {"skipped", "threw"}
         /\ msgCall.pc # "awaitPreMsgReceive")
  => /\ msgCall.pc = "completed"
     /\ msgCall.hs = <<>>
     /\ msgCall.msgValid = "false" => msgCall.preOut = "none"

\* the hook has rejected a message to which two handlers are bound
C17_Witness ==
  /\ msgCall.pc = "completed"
  /\ msgCall.msgValid = "true"
  /\ msgCall.preOut = "skipped"
  /\ msgCall.hs = <<>>
  /\ msgCall.name \in DOMAIN msgHandlers
  /\ Len(msgHandlers[msgCall.name]) = 2

\* C18: handleMsgCall never ends by rejecting, whatever the validator, the
\* preMsgReceive hook and the handlers do, and a JSON message request whose
\* body parses is answered, once handleMsgCall has resolved and not before,
\* by exactly one response: status 200 with body {success: true}.
C18_MsgFailuresNotSurfaced ==
  /\ msgCall.pc \in {"idle", "awaitPreMsgReceive", "awaitHandlers", "completed"}
  /\ (http.pc # "idle" /\ http.isMsg /\ http.parsed)
     => IF http.pc = "done"
        THEN /\ msgCall.pc = "completed"
             /\ http.status = 200
             /\ http.body = AckBody
             /\ http.writes = 1
        ELSE /\ http.pc = "awaitMsgCall"
             /\ msgCall.pc # "completed" => msgCall.pc \in {"awaitPreMsgReceive", "awaitHandlers"}
             /\ http.writes = 0
             /\ ~http.headersSent

\* a message request answered with the acknowledgement although a handler
\* of the message has failed
C18_Witness ==
  /\ http.pc = "done"
  /\ http.isMsg
  /\ http.status = 200
  /\ http.body = AckBody
  /\ msgCall.logged > 0
  /\ \E i \in 1..Len(msgCall.hs) : msgCall.hs[i] \in {"threw", "rejected"}

\* the step invokes the API handler of the call
HandlerInvokedNow ==
  /\ call' # call
  /\ Includes(call'.trace, "handler")
  /\ call.pc \notin {"awaitHandler", "awaitPreApiReturn"}
  /\ call' # [call EXCEPT !.post = call'.post]

\* the step fans the message of the call out to the handlers
FannedOutNow ==
  /\ msgCall' # msgCall
  /\ msgCall'.pc \in {"awaitHandlers", "completed"}
  /\ msgCall.pc \in {"idle", "completed", "awaitPreMsgReceive"}
  /\ msgCall'.msgValid = "true"
  /\ msgCall'.preOut \in {"none", "continued"}
  /\ msgCall'.name \in DOMAIN msgHandlers

\* C19: a step that changes the API handler table sets the handler of one
\* name and leaves the others, so that a name has one handler, the one
\* implemented last, and this is the handler a call invokes; a step that
\* changes the message handler table appends one entry to the list of one
\* name; and a dispatched message invokes each entry of the list exactly
\* once.
C19_HandlerTables ==
  [][/\ apiHandlers' # apiHandlers
        => \E n \in Names, h \in AllHandlerIds : apiHandlers' = Put(apiHandlers, n, h)
     /\ HandlerInvokedNow => call'.handler = apiHandlers[call'.name]
     /\ msgHandlers' # msgHandlers
        => \E n \in Names, h \in AllHandlerIds :
             msgHandlers' =
               Put(msgHandlers, n,
                   Append(IF n \in DOMAIN msgHandlers THEN msgHandlers[n] ELSE <<>>, h))
     /\ FannedOutNow
        => /\ msgCall'.entries = msgHandlers[msgCall'.name]
           /\ Len(msgCall'.hs) = Len(msgCall'.entries)
           /\ \A i \in 1..Len(msgCall'.hs) : msgCall'.hs[i] # "notInvoked"]_vars

\* C20: every point holds at most one hook, and a setFlows call gives each
\* point it mentions the hook it names for it and leaves the hook of every
\* other point as it was, so that a point holds the hook of the last call
\* that mentioned it.
C20_LastWriteWins ==
  [][/\ flows' \in [FlowPoints -> AllHookIds \cup {Unbound}]
     /\ \A partial \in FlowArgs :
          setFlows(partial)
          => /\ \A p \in DOMAIN partial : flows'[p] = partial[p]
             /\ \A p \in FlowPoints \ DOMAIN partial : flows'[p] = flows[p]]_vars

\* two points hold different hooks, bound by different calls, and a third
\* point that was never mentioned holds none
C20_Witness ==
  /\ flows["preApiCall"] = "f2"
  /\ flows["postApiCall"] = "f1"
  /\ flows["preMsgReceive"] = Unbound
  /\ Cardinality({p \in FlowPoints : flows[p] # Unbound}) > MaxFlowsPerCall

\* C21: a request that reached connection creation has had its record
\* removed from the connection table by the time handleRequest finishes, on
\* every path, so the table is empty whenever no request is in flight.
C21_NoConnectionLeak ==
  (request.pc \in {"idle", "done", "rejected"}) => connections = EmptyMap

\* C22: sendMsg never throws; it returns a failure when the connection id is
\* not in the table (neither validation nor the preMsgSend hook has run),
\* when validation fails (the hook has not run), and when the hook returned
\* without calling its continuation or threw; it returns success only when
\* none of these occurred.
C22_SendMsgContract ==
  \A c \in DOMAIN send.sm :
    LET s == send.sm[c] IN
    /\ s.pc # "rejected"
    /\ c \notin send.atCall
       => (s.pc = "returned" /\ ~s.ret.isSucc /\ s.valid = "none" /\ s.hook = "none")
    /\ s.valid \in {"false", "throw"}
       => (s.pc = "returned" /\ ~s.ret.isSucc /\ s.hook = "none")
    /\ (s.hook \in {"skipped", "threw"} /\ s.pc # "awaitPreMsgSend")
       => (s.pc = "returned" /\ ~s.ret.isSucc)
    /\ (s.ret.returned /\ s.ret.isSucc)
       => (c \in send.atCall /\ s.valid = "true" /\ s.hook \in {"none", "continued"})

\* C23: whenever sendMsg has returned success, the serialized message has
\* been handed to the transport handle of the connection.
C23_HandedToTransport ==
  \A c \in DOMAIN send.sm :
    (send.sm[c].ret.returned /\ send.sm[c].ret.isSucc) => send.sm[c].handed

\* the report of a broadcastMsg call that has returned: one entry for each
\* connection id that was in the table at the call and is not excluded, no
\* other entry, each entry with the verdict of its sendMsg, and isSucc true
\* exactly if no entry failed
BroadcastReportExact ==
  (send.op = "broadcastMsg" /\ send.pc = "returned")
  => /\ {send.results[i].connId : i \in 1..Len(send.results)} = send.atCall \ send.exclude
     /\ Len(send.results) = Cardinality(send.atCall \ send.exclude)
     /\ \A i \in 1..Len(send.results) :
          LET s == send.sm[send.results[i].connId] IN
          /\ s.ret.returned
          /\ send.results[i].success = s.ret.isSucc
     /\ send.ret.isSucc = (\A i \in 1..Len(send.results) : send.results[i].success)

\* C24: broadcastMsg returns a results list with exactly one entry for each
\* connection id in the table at the call and not excluded, whatever happens
\* to the table while the sends are pending; each entry has the verdict of
\* its sendMsg, and isSucc is true exactly if no entry failed.
C24_BroadcastReport ==
  /\ (send.op = "broadcastMsg") => send.pc # "rejected"
  /\ BroadcastReportExact

\* the first call is held by a handler that never settles
FirstCallHung == call.pc = "awaitHandler" /\ call.pending.how = "hang"

\* the second call is in flight
SecondInFlight == call2.pc \in {"awaitPreApiCall", "awaitHandler"}

\* the second call waits for a hook or handler of its own that never settles
SecondHung == SecondInFlight /\ call2.pending.how = "hang"

\* C25: while a handler that never settles holds one call, every other call
\* in flight whose own hook and handler settle eventually returns its
\* envelope.
C25_HungCallHoldsOnlyItself ==
  (FirstCallHung /\ SecondInFlight) ~> (call2.pc = "returned" \/ SecondHung)


\* the value with every negative zero replaced by zero
RECURSIVE WithoutNegativeZero(_)
WithoutNegativeZero(v) ==
  IF v.t = "number" THEN [v EXCEPT !.neg = v.neg /\ v.n # 0]
  ELSE [v EXCEPT !.items = [i \in 1..Len(v.items) |-> WithoutNegativeZero(v.items[i])]]

\* C26 as stated: deserializing what serialize produced, in any of the three
\* modes, gives a value equal to the one serialized
C26_RoundTripExact ==
  (codec.pc = "deserialized") => codec.back = [ok |-> TRUE, val |-> codec.x]

\* C26: deserializing what serialize produced, in any of the three modes,
\* gives the value serialized, except that a negative zero in it comes back
\* as zero
C26_RoundTrip ==
  (codec.pc = "deserialized")
    => codec.back = [ok |-> TRUE, val |-> WithoutNegativeZero(codec.x)]

\* an object with a non-ASCII key came back unchanged through the byte form
C26_Witness ==
  /\ codec.pc = "deserialized"
  /\ codec.mode = "binary"
  /\ codec.out.kind = "bytes"
  /\ codec.x.t = "object"
  /\ \E i \in 1..Len(codec.x.items) : codec.x.items[i].key = <<EAcute, "\"">>
  /\ codec.back = [ok |-> TRUE, val |-> codec.x]

\* C27: in auto mode the result is the JSON text when that text has at most
\* 1024 characters and its UTF-8 bytes when it has 1025 or more
C27_AutoBoundary ==
  (codec.pc # "idle" /\ codec.mode = "auto")
    => /\ (Len(Stringify(codec.x)) <= 1024)
            => codec.out = StringOutput(Stringify(codec.x))
       /\ (Len(Stringify(codec.x)) >= 1025)
            => codec.out = BytesOutput(TextEncode(Stringify(codec.x)))

\* a text of exactly 1024 characters was returned as text in auto mode
C27_Witness ==
  /\ codec.pc = "serialized"
  /\ codec.mode = "auto"
  /\ Len(Stringify(codec.x)) = 1024
  /\ codec.out.kind = "string"

\* a text of 1025 characters was returned as bytes in auto mode
AutoBytesReached ==
  /\ codec.pc = "serialized"
  /\ codec.mode = "auto"
  /\ Len(Stringify(codec.x)) = 1025
  /\ codec.out.kind = "bytes"

\* a binary API request that parsed has been answered
BinaryApiAnswered ==
  /\ http.binary
  /\ http.parsed
  /\ ~http.isMsg
  /\ http.pc = "done"
  /\ http.writes > 0

\* C28: the envelope written back for a binary API request that parsed
\* carries the sequence number of the request, for success and failure
\* envelopes alike, and none when the request had none
C28_SnEchoed == BinaryApiAnswered => http.body.sn = http.sn

\* a preApiCall hook of the standalone server has returned without calling
\* its continuation
PreApiCallReturnedSilently ==
  /\ standalone.k.preCalls = "skipped"
  /\ standalone.k.preOut = "resolved"
  /\ standalone.k.pc # "awaitPreApiCall"

\* C29: in StandaloneHttpServer.handleApiCall a preApiCall hook that returns
\* without calling its continuation rejects the call: the handler is invoked
\* zero times and the call returns a failure envelope with code
\* MIDDLEWARE_REJECTED and type ServerError
C29_SilentHookRejects ==
  PreApiCallReturnedSilently
    => /\ standalone.k.invoked = 0
       /\ standalone.k.pc = "returned"
       /\ ~standalone.k.ret.isSucc
       /\ standalone.k.ret.err.code = "MIDDLEWARE_REJECTED"
       /\ standalone.k.ret.err.type = "ServerError"

\* a postApiCall hook of the standalone server has thrown or rejected
PostApiCallThrew ==
  /\ standalone.k.postOut = "threw"
  /\ standalone.k.pc # "awaitPostApiCall"

\* C30: in StandaloneHttpServer.handleApiCall a postApiCall hook that throws
\* or rejects never surfaces: the call returns the success envelope with
\* the handler's result
C30_PostHookAdvisory ==
  PostApiCallThrew
    => /\ standalone.k.pc = "returned"
       /\ standalone.k.ret = Success(standalone.k.result)

\* the path of the url handleRequest has read lies outside jsonHostPath or
\* names no service
PathTurnedAway ==
  LET q == IndexOf(request.url, "?")
      path == IF q = 0 THEN request.url ELSE SubSeq(request.url, 1, q - 1)
  IN /\ request.url # <<>>
     /\ \/ Len(path) < Len(JsonHostPath)
        \/ \E i \in 1..Len(JsonHostPath) : path[i] # JsonHostPath[i]
        \/ Len(path) = Len(JsonHostPath)

\* the request was answered with `status` and nothing else happened
TurnedAwayWith(status) ==
  /\ request.pc = "done"
  /\ http.pc = "done"
  /\ http.writes = 1
  /\ http.status = status
  /\ request.pending = NoBeh
  /\ call = IdleCall
  /\ msgCall = IdleMsgCall
  /\ request.connId \notin DOMAIN connections

\* C31: a request with method OPTIONS, with a method other than POST, with a
\* body larger than maxBodySize, or with a path outside jsonHostPath or
\* without a service name is answered with 200, 405, 413 or 400; no hook and
\* no handler is invoked and no connection record is created for it
C31_TransportGate ==
  /\ (request.method = "OPTIONS") => TurnedAwayWith(200)
  /\ (request.method \in {"GET", "PUT"}) => TurnedAwayWith(405)
  /\ (request.bodyLength > 10485760) => TurnedAwayWith(413)
  /\ (request.bodyLength <= 10485760 /\ PathTurnedAway) => TurnedAwayWith(400)

\* a POST to the bare host path with a body of the largest size allowed was
\* answered with 400
C31_Witness ==
  /\ request.method = "POST"
  /\ request.bodyLength = 10485760
  /\ request.url = <<"/", "a", "p", "i", "/">>
  /\ TurnedAwayWith(400)
  /\ request.connId = 2

\* C32: for every name, keys of Object.prototype included, the first
\* registration in a namespace returns the previous nextId and advances
\* nextId by one, and getServiceId returns undefined for every name never
\* registered in the namespace
C32_FirstRegistrationFresh ==
  \A n \in Names :
    /\ <<"api", n>> \notin registered
       => /\ GetServiceId(serviceMap, n, "api") = Undefined
          /\ RegisterApiRet(serviceMap, n) = Num(serviceMap.nextId)
          /\ RegisterApiMap(serviceMap, n).nextId = serviceMap.nextId + 1
    /\ <<"msg", n>> \notin registered
       => /\ GetServiceId(serviceMap, n, "msg") = Undefined
          /\ RegisterMsgRet(serviceMap, n) = Num(serviceMap.nextId)
          /\ RegisterMsgMap(serviceMap, n).nextId = serviceMap.nextId + 1

\* the names of `among` registered in a namespace
RegisteredIn(k, among) == {n \in among : <<k, n>> \in registered}

\* the registry is consistent for the names of `among`
RegistryConsistent(among) ==
  /\ serviceMap.nextId
       = Cardinality(RegisteredIn("api", among)) + Cardinality(RegisteredIn("msg", among))
  /\ (DOMAIN serviceMap.id2ApiName) \cup (DOMAIN serviceMap.id2MsgName)
       = 0..(serviceMap.nextId - 1)
  /\ \A k \in Kinds : \A n \in RegisteredIn(k, among) :
       /\ GetServiceId(serviceMap, n, k).t = "number"
       /\ GetServiceName(serviceMap, GetServiceId(serviceMap, n, k).v, k) = n
  /\ \A id \in DOMAIN serviceMap.id2ApiName :
       GetServiceId(serviceMap, serviceMap.id2ApiName[id], "api") = Num(id)
  /\ \A id \in DOMAIN serviceMap.id2MsgName :
       GetServiceId(serviceMap, serviceMap.id2MsgName[id], "msg") = Num(id)
  /\ {protocol.apiNames[i] : i \in 1..Len(protocol.apiNames)} = RegisteredIn("api", among)
  /\ {protocol.msgNames[i] : i \in 1..Len(protocol.msgNames)} = RegisteredIn("msg", among)
  /\ Len(protocol.apiNames) = Cardinality(RegisteredIn("api", among))
  /\ Len(protocol.msgNames) = Cardinality(RegisteredIn("msg", among))

\* C33: in every registry state nextId is the number of registered API
\* names plus the number of registered message names, the ids assigned are
\* exactly 0..nextId-1, the id maps are the inverses of the name maps, and
\* the name lists of the protocol hold exactly the registered names, once
\* each
C33_RegistryConsistent == RegistryConsistent(Names)

\* validateRequest(name, d) once registerApi(name, {req: v}) has returned
VerdictAfterRegisterApi(among) ==
  \A n \in among, v \in ValidatorIds, d \in Data :
    ValidateRequest(options,
                    RegisterApiProtocol(serviceMap, protocol, options, n,
                                        [given |-> TRUE, req |-> v, res |-> NoValidator]),
                    n, d)
      = ValidatorResult(v, d)

\* C34: with validation enabled, after registerApi(name, {req: v}) returns,
\* validateRequest(name, d) is v(d) for every d, whatever registrations
\* preceded the call
C34_ValidatorBound == options.enableValidation => VerdictAfterRegisterApi(Names)
\* the position of a stage in the order of handleApiCall
StageRank(stage) ==
  CASE stage = "preApiCall" -> 1
    [] stage = "handler" -> 2
    [] stage = "preApiReturn" -> 3
    [] stage = "postApiCall" -> 4

\* the stages of a call, in the order in which they were invoked
StagesInOrder(k) ==
  \A i, j \in 1..Len(k.trace) : i < j => StageRank(k.trace[i]) < StageRank(k.trace[j])

Invoked(k, stage) == \E i \in 1..Len(k.trace) : k.trace[i] = stage

\* the stage is invoked by this step of the call
InvokedNow(stage) ==
  /\ Invoked(call', stage)
  /\ call.pc \in {"idle"} \cup Terminal \/ ~Invoked(call, stage)
  /\ call' # call
  /\ call'.post \notin {"settled", "logged"}

StageOrderStep ==
  /\ StagesInOrder(call')
  /\ Invoked(call', "handler")
     => /\ call'.reqValid = "true"
        /\ Invoked(call', "preApiCall") => call'.preOut = "continued"
  /\ InvokedNow("handler")
     => Invoked(call', "preApiCall") \/ flows["preApiCall"] = Unbound
  /\ InvokedNow("preApiCall") => ~Invoked(call', "handler") \/ call'.preOut = "continued"
  /\ Invoked(call', "postApiCall")
     => /\ Invoked(call', "handler")
        /\ call'.handlerOut = "returned"
        /\ call'.resValid = "true"
        /\ Invoked(call', "preApiReturn") => call'.preRetOut = "continued"
  /\ InvokedNow("postApiCall")
     => /\ Invoked(call', "preApiReturn") \/ flows["preApiReturn"] = Unbound
        /\ call.pc \in {"awaitHandler", "awaitPreApiReturn"}
        /\ call.caught = NoThrow
        /\ Settled(call.pending) /\ call.pending.how = "resolve"

\* C35: within one API call the stages occur in the order preApiCall,
\* handler, preApiReturn, postApiCall, each at most once; the handler is
\* invoked only after request validation passed and the preApiCall hook, if
\* bound, completed having called its continuation; the postApiCall hook is
\* invoked only after the handler returned, response validation passed and
\* the preApiReturn hook, if bound, called its continuation, never after a
\* throw of the handler or a rejection of a validation or a hook.
C35_StageOrder == [][StageOrderStep]_vars

\* a call that went through all four stages
C35_Witness ==
  /\ call.pc = "returned"
  /\ call.trace = <<"preApiCall", "handler", "preApiReturn", "postApiCall">>
  /\ call.ret = Success(call.result)
  /\ call.preOut = "continued"
  /\ call.preRetOut = "continued"

\* the bound preApiCall hook of the call has thrown or rejected, and the
\* call has gone on from there
PreApiCallThrew == call.preOut = "threw" /\ call.pc # "awaitPreApiCall"

\* C36: when the bound preApiCall hook throws or rejects, the call returns
\* the failure envelope INTERNAL_ERROR / ServerError that carries the hook's
\* error message, and the handler is not invoked, whether or not the hook
\* had called its continuation.
C36_HookFailureWrapped ==
  PreApiCallThrew
  => /\ call.pc = "returned"
     /\ call.ret = Failure(call.caught.message, "INTERNAL_ERROR", "ServerError")
     /\ ~Invoked(call, "handler")

\* the onDisconnect hook is invoked for connection c by this step
DisconnectHookNow(c) == disconnected'.hook[c] > disconnected.hook[c]

\* this step is onDisconnect of handleRequest for a connection that is not
\* in the table
OnDisconnectOfUntracked ==
  /\ request.pc = "handling"
  /\ request'.pc # "handling"
  /\ http.pc = "done"
  /\ request.connId \notin DOMAIN connections

\* this step is a closeConnection
CloseConnectionNow ==
  /\ disconnected' # disconnected
  /\ disconnected'.hook = disconnected.hook

DisconnectStep ==
  /\ \A c \in ConnIds :
       /\ disconnected'.hook[c] <= 1
       /\ DisconnectHookNow(c)
          => /\ c \in DOMAIN connections
             /\ c \notin DOMAIN connections'
             /\ c \notin disconnected.closed
       /\ c \in disconnected'.closed => disconnected'.hook[c] = 0
  /\ (CloseConnectionNow /\ disconnected'.ret = "true")
     => \E c \in DOMAIN connections :
          /\ connections' = Delete(connections, c)
          /\ disconnected'.closed = disconnected.closed \cup {c}
  /\ (CloseConnectionNow /\ disconnected'.ret # "true")
     => /\ disconnected'.ret = "false"
        /\ connections' = connections
        /\ disconnected'.closed = disconnected.closed
        /\ request' = request
        /\ flows' = flows
  /\ OnDisconnectOfUntracked
     => /\ connections' = connections
        /\ disconnected' = disconnected
        /\ request' = [request EXCEPT !.pc = "done"]
        /\ http' = http

\* C37: for each connection id the onDisconnect hook is invoked at most
\* once, in the step that removes the record of the connection; onDisconnect
\* and closeConnection for an id that is not in the table change nothing,
\* closeConnection returning false; for a connection that closeConnection
\* removed the onDisconnect hook is never invoked.
C37_DisconnectOnce == [][DisconnectStep]_vars

\* the first request was disconnected through the hook; the second one was
\* closed by closeConnection while it was served and has ended, with the
\* hook still bound, without the hook being invoked
C37_Witness ==
  /\ disconnected.hook[1] = 1
  /\ 2 \in disconnected.closed
  /\ disconnected.hook[2] = 0
  /\ disconnected.ret = "false"
  /\ request.connId = 2
  /\ request.pc = "done"
  /\ http.status = 200
  /\ flows["onDisconnect"] # Unbound
  /\ connections = EmptyMap

\* the moves of the status the lifecycle allows
StatusMoves ==
  {<<"CLOSED", "OPENING">>, <<"OPENING", "OPENED">>, <<"OPENED", "CLOSING">>,
   <<"CLOSING", "CLOSED">>, <<"OPENING", "CLOSED">>}

\* this step is a call of start()
StartNow == lifecycle'.starts = lifecycle.starts + 1

StartRefused == lifecycle'.ret = "Server already started"

LifecycleStep ==
  /\ lifecycle'.status # lifecycle.status
     => <<lifecycle.status, lifecycle'.status>> \in StatusMoves
  /\ StartNow
     => /\ StartRefused <=> lifecycle.httpServer
        /\ lifecycle.status = "CLOSED" => ~StartRefused

\* C38: the status moves only Closed -> Opening -> Opened -> Closing ->
\* Closed, or Opening -> Closed on a listen error; start() fails with
\* 'Server already started' exactly when a server instance of an earlier
\* start() still exists; and a start() made while the status is CLOSED is
\* accepted, also after a start() that failed with a listen error.
C38_Lifecycle == [][LifecycleStep]_vars

\* a POST to a valid service path has been admitted by handleRequest
Admitted == request.pc = "awaitOnConnect"

\* a hook or the handler of the request never settles
NeverSettles ==
  \/ request.pending.how = "hang"
  \/ call.pending.how = "hang"
  \/ msgCall.pending.how = "hang"

\* handleRequest has settled and one response has been completed
OneResponseCompleted ==
  /\ request.pc \in {"done", "rejected"}
  /\ http.headersSent
  /\ http.ended
  /\ http.writes = 1

\* C39: every POST to a valid service path whose hooks and handler settle
\* eventually has exactly one response completed: the headers are written
\* once and the body is ended.
C39_OneResponse == Admitted ~> (OneResponseCompleted \/ NeverSettles)

\* one body for each type tag and service name, and the bodies that are not
\* frames
ProbeFrames ==
  {TextEncode(Stringify(FrameValue(k, n, 0, NoSn))) : k \in Kinds \cup {"any"}, n \in {NamePool[1]}}
  \cup {TextEncode(Stringify(FrameValue(k, n, 0, <<1>>))) : k \in Kinds, n \in Names}
  \cup MalformedFrames

\* the namespace getServiceId selects for a type
NamespaceOf(type) == IF type = "api" THEN "api" ELSE "msg"

\* parseServerInput gives null for the body exactly when the body does not
\* decode, decodes to a value without a truthy type or serviceName, or names
\* a service of `among` that is not registered in the namespace of its type
InputAsClaimed(body, among) ==
  LET parsed == Decoded[body]
      type == Get(parsed.val, KeyType)
      name == Get(parsed.val, KeyServiceName)
      serviceName == IF name.t = "string" THEN NameOf(name.s) ELSE NoServiceName
      input == ParseServerInput(serviceMap, body)
  IN serviceName \in among \cup {NoServiceName}
     => IF \/ ~parsed.ok
           \/ ~Truthy(type)
           \/ ~Truthy(name)
           \/ <<NamespaceOf(TypeOf(type)), serviceName>> \notin registered
        THEN input.isNull
        ELSE /\ ~input.isNull
             /\ input.serviceName = serviceName
             /\ input.serviceId = GetServiceId(serviceMap, serviceName, TypeOf(type))

\* a binary request for which parseServerInput returned null has ended
NullInputAnswered == http.binary /\ ~http.parsed /\ http.pc # "idle"

ParseServerInputAsClaimed(among) ==
  /\ \A body \in ProbeFrames : InputAsClaimed(body, among)
  /\ NullInputAnswered
     => /\ http.pc = "done"
        /\ http.status = 400
        /\ http.writes = 1
        /\ http.ended
        /\ call = IdleCall
        /\ msgCall = IdleMsgCall

\* C40: parseServerInput returns null when its input is not decodable JSON,
\* decodes to a value without a truthy type or serviceName, or names a
\* service that has no id in the namespace its type selects, and otherwise
\* a descriptor whose serviceId is getServiceId(serviceName, type); a binary
\* request for which it returns null is answered with 400 and reaches no
\* hook and no handler of the API and message pipelines.
C40_ParseServerInput == ParseServerInputAsClaimed(Names)
====
